---- MODULE Spec2Model ----
(***************************************************************************)
(* A model of cli-trace: the timeline state machine, the Bezier helpers,   *)
(* the SVG path parser and the partial-draw walk of the canvas and the     *)
(* terminal renderer.                                                      *)
(*                                                                         *)
(* Numbers.  A JavaScript number is modelled as a record                   *)
(*   [k |-> "num", n |-> numerator, d |-> denominator]  (an exact          *)
(*   rational in lowest terms, d > 0), or NaN, or +/-Infinity.             *)
(* Arithmetic follows IEEE-754 on the special values (x/0, 0/0, Inf-Inf,   *)
(* comparisons with NaN are false, Math.min/max propagate NaN).  Finite    *)
(* arithmetic is exact, except that Math.sqrt is rounded down to a multiple *)
(* of 1/SqrtUnit.  Signed zero is not distinguished.                       *)
(***************************************************************************)
EXTENDS Integers, Sequences, FiniteSets, TLC

VARIABLES
    timeline,   \* the TimelineState value the caller holds
    lastOp,     \* the last timeline operation applied, with its time argument
    call,       \* the last call of a pure library function: arguments and result
    loadedPathData,   \* the PathData loaded into the renderers
    frame,      \* the last frame a renderer drew: renderer, progress, output
    player,     \* an animating renderer: its kind, isPlaying, animationId
    host,       \* the host of the renderer: clock and pending frame callbacks
    loops       \* the animate() calls made so far, with what each has done

timelineVars == <<timeline, lastOp>>
renderVars == <<loadedPathData, frame>>
animVars == <<player, host, loops>>
vars == <<timeline, lastOp, call, loadedPathData, frame, player, host, loops>>

----------------------------------------------------------------------------
(* Bounds of the model *)

MaxTime == 6            \* clock values (ms) are drawn from 0..MaxTime
MaxDuration == 4        \* durationMs is drawn from 1..MaxDuration
MaxCoord == 1           \* control point coordinates are drawn from 0..MaxCoord
ParamDen == 2           \* curve parameters are multiples of 1/ParamDen
TargetDen == 3          \* target lengths are multiples of totalLength/TargetDen
SqrtUnit == 1000        \* square roots are rounded down to multiples of 1/SqrtUnit
MaxSegments == 2        \* a path is "M 0 0" followed by at most MaxSegments commands
MaxPathX == 1           \* path points are (x, 0) with x in 0..MaxPathX
ProgressDen == 4        \* frames are drawn at progress i/ProgressDen
GridWidth == 4          \* terminal pixel grid, columns
GridHeight == 4         \* terminal pixel grid, rows
EpsilonDen == 16        \* the bisection of cubicBezier stops at width 1/EpsilonDen
MaxLoops == 3           \* animate() is called at most MaxLoops times on a renderer
MaxClock == 3           \* Date.now() runs from 0 to MaxClock
MaxAnimDuration == 2    \* animate() durations are 1..MaxAnimDuration
MaxChunks == 3          \* a parsed path string is made of at most MaxChunks pieces
MaxPolyline == 2        \* a polyline string has at most MaxPolyline L commands
MaxPolyCoord == 1       \* polyline coordinates are drawn from 0..MaxPolyCoord

----------------------------------------------------------------------------
(* JavaScript numbers *)

Abs(x) == IF x < 0 THEN -x ELSE x

RECURSIVE GCD(_, _)
GCD(a, b) == IF b = 0 THEN a ELSE GCD(b, a % b)

\* The rational n/d (d # 0) in lowest terms with a positive denominator.
Num(n, d) ==
    LET s == IF d < 0 THEN -1 ELSE 1
        g == GCD(Abs(n), Abs(d))
    IN  [k |-> "num", n |-> (s * n) \div g, d |-> (s * d) \div g]

N(i) == [k |-> "num", n |-> i, d |-> 1]
NaN == [k |-> "nan", n |-> 0, d |-> 1]
\* The value undefined (a missing array element); arithmetic turns it into NaN.
Undef == [k |-> "undef", n |-> 0, d |-> 1]
PosInf == [k |-> "inf", n |-> 1, d |-> 1]
NegInf == [k |-> "inf", n |-> -1, d |-> 1]

IsNum(x) == x.k = "num"
IsNaN(x) == x.k \in {"nan", "undef"}
IsInf(x) == x.k = "inf"
Sgn(x) == IF x.n > 0 THEN 1 ELSE IF x.n < 0 THEN -1 ELSE 0
InfOf(s) == IF s < 0 THEN NegInf ELSE PosInf

JSNeg(x) == IF IsNaN(x) THEN NaN ELSE [x EXCEPT !.n = -x.n]

JSAdd(x, y) ==
    IF IsNaN(x) \/ IsNaN(y) THEN NaN
    ELSE IF IsInf(x) /\ IsInf(y) THEN (IF x.n = y.n THEN x ELSE NaN)
    ELSE IF IsInf(x) THEN x
    ELSE IF IsInf(y) THEN y
    ELSE LET L == (x.d \div GCD(x.d, y.d)) * y.d
         IN  Num(x.n * (L \div x.d) + y.n * (L \div y.d), L)

JSSub(x, y) == JSAdd(x, JSNeg(y))

JSMul(x, y) ==
    IF IsNaN(x) \/ IsNaN(y) THEN NaN
    ELSE IF IsInf(x) \/ IsInf(y)
         THEN (IF Sgn(x) = 0 \/ Sgn(y) = 0 THEN NaN ELSE InfOf(Sgn(x) * Sgn(y)))
    ELSE LET g1 == GCD(Abs(x.n), y.d)
             g2 == GCD(Abs(y.n), x.d)
         IN  Num((x.n \div g1) * (y.n \div g2), (x.d \div g2) * (y.d \div g1))

JSDiv(x, y) ==
    IF IsNaN(x) \/ IsNaN(y) THEN NaN
    ELSE IF IsInf(x) THEN (IF IsInf(y) THEN NaN
                           ELSE InfOf(x.n * (IF y.n < 0 THEN -1 ELSE 1)))
    ELSE IF IsInf(y) THEN N(0)
    ELSE IF y.n = 0 THEN (IF x.n = 0 THEN NaN ELSE InfOf(x.n))
    ELSE Num(x.n * y.d, x.d * y.n)

\* Math.floor
JSFloor(x) == IF IsNum(x) THEN N(x.n \div x.d) ELSE x

\* Math.trunc of a finite number (used by the % operator).
TruncInt(x) == IF x.n >= 0 THEN x.n \div x.d ELSE -((-x.n) \div x.d)

\* The JavaScript % operator: the result takes the sign of the dividend.
JSRem(x, y) ==
    IF IsNaN(x) \/ IsNaN(y) \/ IsInf(x) THEN NaN
    ELSE IF IsInf(y) THEN x
    ELSE IF y.n = 0 THEN NaN
    ELSE JSSub(x, JSMul(y, N(TruncInt(JSDiv(x, y)))))

\* x < y, x <= y, x >= y, x > y, x === y: all false when either is NaN.
JSLt(x, y) ==
    /\ ~IsNaN(x) /\ ~IsNaN(y)
    /\ IF IsInf(x) THEN x.n < 0 /\ ~(IsInf(y) /\ y.n < 0)
       ELSE IF IsInf(y) THEN y.n > 0
       ELSE x.n * y.d < y.n * x.d
JSEq(x, y) == ~IsNaN(x) /\ ~IsNaN(y) /\ x = y
JSLe(x, y) == JSLt(x, y) \/ JSEq(x, y)
JSGe(x, y) == JSLe(y, x)
JSGt(x, y) == JSLt(y, x)

\* Math.min / Math.max of two numbers.
JSMin(x, y) == IF IsNaN(x) \/ IsNaN(y) THEN NaN ELSE IF JSLe(x, y) THEN x ELSE y
JSMax(x, y) == IF IsNaN(x) \/ IsNaN(y) THEN NaN ELSE IF JSGe(x, y) THEN x ELSE y


\* Math.ceil
JSCeil(x) == IF IsNum(x) THEN N(-((-x.n) \div x.d)) ELSE x

RECURSIVE ISqrtIter(_, _)
ISqrtIter(n, x) ==
    LET y == (x + n \div x) \div 2
    IN  IF y >= x THEN x ELSE ISqrtIter(n, y)

\* The integer part of the square root of n >= 0.
ISqrt(n) == IF n = 0 THEN 0 ELSE ISqrtIter(n, n)

LCM(a, b) == (a \div GCD(a, b)) * b

\* Op(x, y) with each argument evaluated once, as JavaScript evaluates the
\* operands of an arithmetic expression, whatever the nesting.
Strict2(Op(_, _), x, y) == CHOOSE r \in {Op(a, b) : a \in {x}, b \in {y}} : TRUE

\* Math.sqrt(dx * dx + dy * dy), rounded down to a multiple of 1/SqrtUnit
\* (exact whenever the true root is such a multiple, as every integer is).
\* With D the common denominator of dx and dy, the root is first taken to
\* 1/(D * F), F = max(1, SqrtUnit \div D).
Hypot(dx, dy) ==
    IF IsNaN(dx) \/ IsNaN(dy) THEN NaN
    ELSE IF IsInf(dx) \/ IsInf(dy) THEN PosInf
    ELSE LET D == LCM(dx.d, dy.d)
             F == IF D >= SqrtUnit THEN 1 ELSE SqrtUnit \div D
             a == Abs(dx.n) * (D \div dx.d) * F
             b == Abs(dy.n) * (D \div dy.d) * F
             r == ISqrt(a * a + b * b)
         IN  Num((r * SqrtUnit) \div (D * F), SqrtUnit)

----------------------------------------------------------------------------
(* bezier.ts *)

Pt(x, y) == [x |-> x, y |-> y]

IsCubic(curve) == "control1" \in DOMAIN curve     \* 'control1' in curve

\* mt*mt*mt*p0 + 3*mt*mt*t*p1 + 3*mt*t*t*p2 + t*t*t*p3
CubicCoord(p0, p1, p2, p3, t) ==
    LET mt == JSSub(N(1), t)
    IN  JSAdd(JSAdd(JSAdd(JSMul(JSMul(JSMul(mt, mt), mt), p0),
                          JSMul(JSMul(JSMul(JSMul(N(3), mt), mt), t), p1)),
                    JSMul(JSMul(JSMul(JSMul(N(3), mt), t), t), p2)),
              JSMul(JSMul(JSMul(t, t), t), p3))

cubicBezierPoint(curve, t) ==
    Pt(CubicCoord(curve.start.x, curve.control1.x, curve.control2.x, curve.end.x, t),
       CubicCoord(curve.start.y, curve.control1.y, curve.control2.y, curve.end.y, t))

\* mt*mt*p0 + 2*mt*t*p1 + t*t*p2
QuadCoord(p0, p1, p2, t) ==
    LET mt == JSSub(N(1), t)
    IN  JSAdd(JSAdd(JSMul(JSMul(mt, mt), p0),
                    JSMul(JSMul(JSMul(N(2), mt), t), p1)),
              JSMul(JSMul(t, t), p2))

quadraticBezierPoint(curve, t) ==
    Pt(QuadCoord(curve.start.x, curve.control.x, curve.end.x, t),
       QuadCoord(curve.start.y, curve.control.y, curve.end.y, t))

bezierPoint(curve, t) ==
    IF IsCubic(curve) THEN cubicBezierPoint(curve, t)
    ELSE quadraticBezierPoint(curve, t)

\* The loop body of the two arc-length functions, from sample i on.
RECURSIVE ArcLengthFrom(_, _, _, _)
ArcLengthFrom(curve, samples, i, length) ==
    IF i >= samples THEN length
    ELSE LET dt == JSDiv(N(1), N(samples))
             p1 == bezierPoint(curve, JSMul(N(i), dt))
             p2 == bezierPoint(curve, JSMul(N(i + 1), dt))
             dx == JSSub(p2.x, p1.x)
             dy == JSSub(p2.y, p1.y)
         IN  ArcLengthFrom(curve, samples, i + 1, JSAdd(length, Hypot(dx, dy)))

cubicBezierArcLength(curve, samples) == ArcLengthFrom(curve, samples, 0, N(0))

quadraticBezierArcLength(curve, samples) == ArcLengthFrom(curve, samples, 0, N(0))

bezierArcLength(curve, samples) ==
    IF IsCubic(curve) THEN cubicBezierArcLength(curve, samples)
    ELSE quadraticBezierArcLength(curve, samples)

DefaultSamples == 10        \* samples: number = 10
MinLUTSamples == 10         \* Math.max(10, ...)

\* The sampling loop of createBezierLUT from sample i on; numSamples is a
\* finite integer here.
RECURSIVE LUTFrom(_, _, _, _, _)
LUTFrom(curve, numSamples, i, entries, totalLength) ==
    IF i > numSamples THEN [entries |-> entries, totalLength |-> totalLength]
    ELSE LET dt == JSDiv(N(1), N(numSamples))
             t == JSMul(N(i), dt)
             point == bezierPoint(curve, t)
             entry == [t |-> t, point |-> point, length |-> totalLength]
             nextPoint == bezierPoint(curve, JSMul(N(i + 1), dt))
             dx == JSSub(nextPoint.x, point.x)
             dy == JSSub(nextPoint.y, point.y)
         IN  LUTFrom(curve, numSamples, i + 1, Append(entries, entry),
                     IF i < numSamples THEN JSAdd(totalLength, Hypot(dx, dy))
                     ELSE totalLength)

\* entries is 1-based here: entries[i + 1] is the code's entries[i].
createBezierLUT(curve, resolution) ==
    LET numSamples == JSMax(N(MinLUTSamples),
                            JSCeil(JSMul(bezierArcLength(curve, DefaultSamples),
                                         resolution)))
        built == LUTFrom(curve, numSamples.n, 0, <<>>, N(0))
    IN  [entries |-> built.entries,
         totalLength |-> built.totalLength,
         resolution |-> resolution]

\* The binary search with right = mid - 1 in place of right = mid.
RECURSIVE SearchLUT_skipMid(_, _, _, _)
SearchLUT_skipMid(lut, targetLength, left, right) ==
    IF ~(left < right) THEN left
    ELSE LET mid == (left + right) \div 2
             entry == lut.entries[mid + 1]
         IN  IF JSLt(entry.length, targetLength)
             THEN SearchLUT_skipMid(lut, targetLength, mid + 1, right)
             ELSE SearchLUT_skipMid(lut, targetLength, left, mid - 1)

\* The binary search of lengthToParameter: the final value of left.
RECURSIVE SearchLUT(_, _, _, _)
SearchLUT(lut, targetLength, left, right) ==
    IF ~(left < right) THEN left
    ELSE LET mid == (left + right) \div 2
             entry == lut.entries[mid + 1]
         IN  IF JSLt(entry.length, targetLength)
             THEN SearchLUT(lut, targetLength, mid + 1, right)
             ELSE SearchLUT(lut, targetLength, left, mid)

\* lengthToParameter with the two early returns in the opposite order.
lengthToParameter_endFirst(lut, targetLength) ==
    IF JSGe(targetLength, lut.totalLength) THEN N(1)
    ELSE IF JSLe(targetLength, N(0)) THEN N(0)
    ELSE LET left == SearchLUT(lut, targetLength, 0, Len(lut.entries) - 1)
             entry1 == lut.entries[left]
             entry2 == lut.entries[left + 1]
             lengthDiff == JSSub(entry2.length, entry1.length)
         IN  IF JSEq(lengthDiff, N(0)) THEN entry1.t
             ELSE JSAdd(entry1.t,
                        JSMul(JSDiv(JSSub(targetLength, entry1.length), lengthDiff),
                              JSSub(entry2.t, entry1.t)))

lengthToParameter(lut, targetLength) ==
    IF JSLe(targetLength, N(0)) THEN N(0)
    ELSE IF JSGe(targetLength, lut.totalLength) THEN N(1)
    ELSE LET left == SearchLUT(lut, targetLength, 0, Len(lut.entries) - 1)
         IN  IF left - 1 < 0 \/ left > Len(lut.entries) - 1 THEN N(0)
             ELSE LET entry1 == lut.entries[left]        \* entries[left - 1]
                      entry2 == lut.entries[left + 1]    \* entries[left]
                      lengthDiff == JSSub(entry2.length, entry1.length)
                  IN  IF JSEq(lengthDiff, N(0)) THEN entry1.t
                      ELSE LET t == JSDiv(JSSub(targetLength, entry1.length),
                                          lengthDiff)
                           IN  JSAdd(entry1.t,
                                     JSMul(t, JSSub(entry2.t, entry1.t)))

\* mt * a + t * b on both coordinates
Lerp(a, b, t) ==
    LET mt == JSSub(N(1), t)
    IN  Pt(JSAdd(JSMul(mt, a.x), JSMul(t, b.x)),
           JSAdd(JSMul(mt, a.y), JSMul(t, b.y)))

\* Returns <<firstCurve, secondCurve>>.
splitCubicBezier(curve, t) ==
    LET p1 == Lerp(curve.start, curve.control1, t)
        p2 == Lerp(curve.control1, curve.control2, t)
        p3 == Lerp(curve.control2, curve.end, t)
        p4 == Lerp(p2, p3, t)
        p5 == Lerp(p3, curve.end, t)
        firstCurve == [start |-> curve.start, control1 |-> p1,
                       control2 |-> p4, end |-> p5]
        secondCurve == [start |-> p5, control1 |-> p3,
                        control2 |-> p2, end |-> curve.end]
    IN  <<firstCurve, secondCurve>>

----------------------------------------------------------------------------
(* svg-parser.ts: parsePathData works on the commands tokenizePath returns, *)
(* a sequence of [type |-> letter, args |-> sequence of numbers].           *)

\* args[i] of a JavaScript array (0-based); undefined past its end.
Arg(args, i) == IF i + 1 <= Len(args) THEN args[i + 1] ELSE Undef

UpperCase(type) ==
    CASE type = "m" -> "M" [] type = "l" -> "L" [] type = "h" -> "H"
      [] type = "v" -> "V" [] type = "c" -> "C" [] type = "s" -> "S"
      [] type = "q" -> "Q" [] type = "t" -> "T" [] type = "a" -> "A"
      [] type = "z" -> "Z" [] OTHER -> type

\* relative ? { x: currentPoint.x + x, y: currentPoint.y + y } : { x, y }
Target(relative, currentPoint, x, y) ==
    IF relative THEN Pt(JSAdd(currentPoint.x, x), JSAdd(currentPoint.y, y))
    ELSE Pt(x, y)

\* The control point of case 'S' / 'T' without the reflection.
Mirror_noReflection(currentPoint, lastControlPoint) == currentPoint

\* lastControlPoint ? 2 * currentPoint - lastControlPoint : currentPoint
\* (lastControlPoint is <<>> for null and <<point>> otherwise).
Mirror(currentPoint, lastControlPoint) ==
    IF lastControlPoint # <<>>
    THEN Pt(JSSub(JSMul(N(2), currentPoint.x), lastControlPoint[1].x),
            JSSub(JSMul(N(2), currentPoint.y), lastControlPoint[1].y))
    ELSE currentPoint

\* The parser's carried state after pushing a segment.
Push(st, segment, currentPoint, lastControlPoint) ==
    [segments |-> Append(st.segments, segment),
     currentPoint |-> currentPoint,
     lastControlPoint |-> lastControlPoint]

\* case 'Z' that also moves currentPoint (to the origin).
CloseSegment_toOrigin(st) ==
    Push(st, [type |-> "Z", points |-> <<>>], Pt(N(0), N(0)), <<>>)

\* case 'Z': one segment without points; currentPoint is not updated.
CloseSegment(st) ==
    Push(st, [type |-> "Z", points |-> <<>>], st.currentPoint, <<>>)

\* One command: the for loop over its argument groups, from index i on.
RECURSIVE ParseCommand(_, _, _, _, _)
ParseCommand(upperType, relative, args, i, st) ==
    LET cur == st.currentPoint
    IN  CASE upperType = "Z" -> CloseSegment(st)
          [] upperType \in {"M", "L"} ->
               IF ~(i < Len(args)) THEN st
               ELSE LET point == Target(relative, cur, Arg(args, i), Arg(args, i + 1))
                        type == IF upperType = "M" /\ i = 0 THEN "M" ELSE "L"
                    IN  ParseCommand(upperType, relative, args, i + 2,
                            Push(st, [type |-> type, points |-> <<point>>],
                                 point, <<>>))
          [] upperType = "H" ->
               IF ~(i < Len(args)) THEN st
               ELSE LET x == Arg(args, i)
                        point == IF relative THEN Pt(JSAdd(cur.x, x), cur.y)
                                 ELSE Pt(x, cur.y)
                    IN  ParseCommand(upperType, relative, args, i + 1,
                            Push(st, [type |-> "L", points |-> <<point>>],
                                 point, <<>>))
          [] upperType = "V" ->
               IF ~(i < Len(args)) THEN st
               ELSE LET y == Arg(args, i)
                        point == IF relative THEN Pt(cur.x, JSAdd(cur.y, y))
                                 ELSE Pt(cur.x, y)
                    IN  ParseCommand(upperType, relative, args, i + 1,
                            Push(st, [type |-> "L", points |-> <<point>>],
                                 point, <<>>))
          [] upperType = "C" ->
               IF ~(i < Len(args)) THEN st
               ELSE LET control1 == Target(relative, cur, Arg(args, i), Arg(args, i + 1))
                        control2 == Target(relative, cur, Arg(args, i + 2), Arg(args, i + 3))
                        end == Target(relative, cur, Arg(args, i + 4), Arg(args, i + 5))
                        curve == [start |-> cur, control1 |-> control1,
                                  control2 |-> control2, end |-> end]
                    IN  ParseCommand(upperType, relative, args, i + 6,
                            Push(st, [type |-> "C", points |-> <<end>>, curve |-> curve],
                                 end, <<control2>>))
          [] upperType = "S" ->
               IF ~(i < Len(args)) THEN st
               ELSE LET control1 == Mirror(cur, st.lastControlPoint)
                        control2 == Target(relative, cur, Arg(args, i), Arg(args, i + 1))
                        end == Target(relative, cur, Arg(args, i + 2), Arg(args, i + 3))
                        curve == [start |-> cur, control1 |-> control1,
                                  control2 |-> control2, end |-> end]
                    IN  ParseCommand(upperType, relative, args, i + 4,
                            Push(st, [type |-> "C", points |-> <<end>>, curve |-> curve],
                                 end, <<control2>>))
          [] upperType = "Q" ->
               IF ~(i < Len(args)) THEN st
               ELSE LET control == Target(relative, cur, Arg(args, i), Arg(args, i + 1))
                        end == Target(relative, cur, Arg(args, i + 2), Arg(args, i + 3))
                        curve == [start |-> cur, control |-> control, end |-> end]
                    IN  ParseCommand(upperType, relative, args, i + 4,
                            Push(st, [type |-> "Q", points |-> <<end>>, curve |-> curve],
                                 end, <<control>>))
          [] upperType = "T" ->
               IF ~(i < Len(args)) THEN st
               ELSE LET control == Mirror(cur, st.lastControlPoint)
                        end == Target(relative, cur, Arg(args, i), Arg(args, i + 1))
                        curve == [start |-> cur, control |-> control, end |-> end]
                    IN  ParseCommand(upperType, relative, args, i + 2,
                            Push(st, [type |-> "Q", points |-> <<end>>, curve |-> curve],
                                 end, <<control>>))
          [] upperType = "A" ->
               IF ~(i < Len(args)) THEN st
               ELSE LET end == Target(relative, cur, Arg(args, i + 5), Arg(args, i + 6))
                    IN  ParseCommand(upperType, relative, args, i + 7,
                            Push(st, [type |-> "L", points |-> <<end>>], end, <<>>))
          [] OTHER -> st          \* console.warn: the command is skipped

RECURSIVE ParseCommands(_, _, _)
ParseCommands(commands, k, st) ==
    IF k > Len(commands) THEN st
    ELSE LET type == commands[k].type
             upperType == UpperCase(type)
         IN  ParseCommands(commands, k + 1,
                 ParseCommand(upperType, type # upperType, commands[k].args, 0, st))

\* tokenizePath.  A path string is modelled as the sequence of its lexemes:
\* command letters, and the pieces that /[\s,]+/ separates in between.
CommandLetters ==
    {"M", "L", "H", "V", "C", "S", "Q", "T", "A", "Z",
     "m", "l", "h", "v", "c", "s", "q", "t", "a", "z"}

\* parseFloat on the lexemes used here; NaN for one that starts with no number.
parseFloat(arg) ==
    CASE arg = "0" -> N(0) [] arg = "1" -> N(1) [] arg = "2" -> N(2)
      [] arg = "3" -> N(3) [] arg = "4" -> N(4) [] arg = "-1" -> N(-1)
      [] arg = "2px" -> N(2)
      [] OTHER -> NaN

\* The index of the first command letter at or after k (Len + 1 if none):
\* where the match of [^MLHVCSQTAZmlhvcsqtaz]* ends.
RECURSIVE ArgsEnd(_, _)
ArgsEnd(pathString, k) ==
    IF k > Len(pathString) \/ pathString[k] \in CommandLetters THEN k
    ELSE ArgsEnd(pathString, k + 1)

\* The regex.exec loop from lexeme k on.
RECURSIVE TokenizeFrom(_, _, _)
TokenizeFrom(pathString, k, commands) ==
    IF k > Len(pathString) THEN commands
    ELSE IF pathString[k] \notin CommandLetters
         THEN TokenizeFrom(pathString, k + 1, commands)
    ELSE LET type == pathString[k]
             end == ArgsEnd(pathString, k + 1)
             argsString == SubSeq(pathString, k + 1, end - 1)
             args == [j \in 1..Len(argsString) |->
                        LET num == parseFloat(argsString[j])
                        IN  IF IsNaN(num) THEN N(0) ELSE num]
         IN  TokenizeFrom(pathString, end,
                 IF argsString # <<>>
                 THEN Append(commands, [type |-> type, args |-> args])
                 ELSE IF UpperCase(type) = "Z"
                      THEN Append(commands, [type |-> type, args |-> <<>>])
                      ELSE commands)

tokenizePath(pathString) == TokenizeFrom(pathString, 1, <<>>)

\* The segments of an already tokenized path string.
parsePathData(commands) ==
    ParseCommands(commands, 1,
        [segments |-> <<>>,
         currentPoint |-> Pt(N(0), N(0)),
         lastControlPoint |-> <<>>]).segments

HasCurve(segment) == "curve" \in DOMAIN segment       \* segment.curve is set

\* The control point placed half way instead of two thirds of the way.
TwoThirds_half(from, control) ==
    JSAdd(from, JSMul(JSDiv(N(1), N(2)), JSSub(control, from)))

\* start + (2/3) * (control - start)
TwoThirds(from, control) ==
    JSAdd(from, JSMul(JSDiv(N(2), N(3)), JSSub(control, from)))

NormalizeSegment(segment) ==
    IF segment.type = "Q" /\ HasCurve(segment)
    THEN LET quad == segment.curve
             cubic == [start |-> quad.start,
                       control1 |-> Pt(TwoThirds(quad.start.x, quad.control.x),
                                       TwoThirds(quad.start.y, quad.control.y)),
                       control2 |-> Pt(TwoThirds(quad.end.x, quad.control.x),
                                       TwoThirds(quad.end.y, quad.control.y)),
                       end |-> quad.end]
         IN  [type |-> "C", points |-> <<quad.end>>, curve |-> cubic]
    ELSE segment

normalizeToCubicBeziers(segments) ==
    [k \in 1..Len(segments) |-> NormalizeSegment(segments[k])]

\* The points calculatePathBounds looks at for one segment, in its order.
BoundsPoints(segment) ==
    segment.points \o
    (IF ~HasCurve(segment) THEN <<>>
     ELSE IF IsCubic(segment.curve)
          THEN <<segment.curve.control1, segment.curve.control2>>
          ELSE <<segment.curve.control>>)

RECURSIVE BoundsOver(_, _, _)
BoundsOver(points, k, b) ==
    IF k > Len(points) THEN b
    ELSE BoundsOver(points, k + 1,
            [minX |-> JSMin(b.minX, points[k].x),
             minY |-> JSMin(b.minY, points[k].y),
             maxX |-> JSMax(b.maxX, points[k].x),
             maxY |-> JSMax(b.maxY, points[k].y)])

RECURSIVE BoundsSegments(_, _, _)
BoundsSegments(segments, k, b) ==
    IF k > Len(segments) THEN b
    ELSE BoundsSegments(segments, k + 1, BoundsOver(BoundsPoints(segments[k]), 1, b))

calculatePathBounds(segments) ==
    LET b == BoundsSegments(segments, 1,
                 [minX |-> PosInf, minY |-> PosInf, maxX |-> NegInf, maxY |-> NegInf])
    IN  [minX |-> IF b.minX = PosInf THEN N(0) ELSE b.minX,
         minY |-> IF b.minY = PosInf THEN N(0) ELSE b.minY,
         maxX |-> IF b.maxX = NegInf THEN N(0) ELSE b.maxX,
         maxY |-> IF b.maxY = NegInf THEN N(0) ELSE b.maxY]

\* The length loop of createPathData from segment k on; currentPoint is <<>>
\* for null.
RECURSIVE TotalLengthFrom(_, _, _, _)
TotalLengthFrom(segments, k, currentPoint, totalLength) ==
    IF k > Len(segments) THEN totalLength
    ELSE IF Len(segments[k].points) > 0
         THEN LET point == segments[k].points[1]
              IN  TotalLengthFrom(segments, k + 1, <<point>>,
                      IF currentPoint # <<>>
                      THEN JSAdd(totalLength,
                                 Hypot(JSSub(point.x, currentPoint[1].x),
                                       JSSub(point.y, currentPoint[1].y)))
                      ELSE totalLength)
         ELSE TotalLengthFrom(segments, k + 1, currentPoint, totalLength)

\* createPathData whose length loop starts at the origin instead of null.
createPathData_fromOrigin(commands) ==
    LET segments == parsePathData(commands)
        normalizedSegments == normalizeToCubicBeziers(segments)
    IN  [segments |-> normalizedSegments,
         totalLength |-> TotalLengthFrom(normalizedSegments, 1,
                                         <<Pt(N(0), N(0))>>, N(0)),
         bounds |-> calculatePathBounds(normalizedSegments)]

createPathData(commands) ==
    LET segments == parsePathData(commands)
        normalizedSegments == normalizeToCubicBeziers(segments)
    IN  [segments |-> normalizedSegments,
         totalLength |-> TotalLengthFrom(normalizedSegments, 1, <<>>, N(0)),
         bounds |-> calculatePathBounds(normalizedSegments)]

----------------------------------------------------------------------------
(* canvas-renderer.ts: renderPath.  The result is, per segment of the path, *)
(* how the walk classed it and the context calls it made; the stroked path  *)
(* is beginPath, these calls in order, stroke.                              *)

CanvasSamples == 20         \* const samples = 20

Chord(a, b) == Hypot(JSSub(b.x, a.x), JSSub(b.y, a.y))

\* "Calculate segment length (simplified)"
CanvasSegmentLength(segment, segmentStart, segmentEnd) ==
    IF segment.type = "C" /\ HasCurve(segment) /\ IsCubic(segment.curve)
    THEN JSMul(Chord(segmentStart, segmentEnd), Num(3, 2))
    ELSE Chord(segmentStart, segmentEnd)

drawSegment(segment, startPoint) ==
    CASE segment.type = "L" ->
            <<[op |-> "lineTo", to |-> segment.points[1]]>>
      [] segment.type = "C" /\ HasCurve(segment) /\ IsCubic(segment.curve) ->
            <<[op |-> "bezierCurveTo", control1 |-> segment.curve.control1,
               control2 |-> segment.curve.control2, to |-> segment.curve.end]>>
      [] segment.type = "Q" /\ HasCurve(segment) /\ ~IsCubic(segment.curve) ->
            <<[op |-> "quadraticCurveTo", control |-> segment.curve.control,
               to |-> segment.curve.end]>>
      [] OTHER -> <<>>

drawPartialCurve(curve, progress) ==
    LET step == JSDiv(progress, N(CanvasSamples))
    IN  [i \in 1..(CanvasSamples + 1) |->
            [op |-> IF i = 1 THEN "moveTo" ELSE "lineTo",
             to |-> IF IsCubic(curve)
                    THEN cubicBezierPoint(curve, JSMul(N(i - 1), step))
                    ELSE quadraticBezierPoint(curve, JSMul(N(i - 1), step))]]

CanvasDrawPartialSegment(segment, startPoint, progress) ==
    CASE segment.type = "L" ->
            LET endPoint == segment.points[1]
            IN  <<[op |-> "lineTo",
                   to |-> Pt(JSAdd(startPoint.x,
                                   JSMul(JSSub(endPoint.x, startPoint.x), progress)),
                             JSAdd(startPoint.y,
                                   JSMul(JSSub(endPoint.y, startPoint.y), progress)))]>>
      [] segment.type = "C" /\ HasCurve(segment) /\ IsCubic(segment.curve) ->
            drawPartialCurve(segment.curve, progress)
      [] segment.type = "Q" /\ HasCurve(segment) /\ ~IsCubic(segment.curve) ->
            drawPartialCurve(segment.curve, progress)
      [] OTHER -> <<>>

\* The alternative walk that draws only the segment progress falls in.
SpanClass_currentOnly(progress, segmentStartProgress, segmentEndProgress) ==
    IF JSGe(progress, segmentStartProgress) /\ JSLt(progress, segmentEndProgress)
    THEN [class |-> "partial",
          t |-> JSDiv(JSSub(progress, segmentStartProgress),
                      JSSub(segmentEndProgress, segmentStartProgress))]
    ELSE [class |-> "none", t |-> Undef]

\* One step of a renderer's walk: where progress falls in the segment's span.
\* class is "none", "partial" or "full"; t is the local progress if partial.
SpanClass(progress, segmentStartProgress, segmentEndProgress) ==
    IF JSGe(progress, segmentStartProgress)
    THEN IF JSGe(progress, segmentEndProgress)
         THEN [class |-> "full", t |-> Undef]
         ELSE [class |-> "partial",
               t |-> JSDiv(JSSub(progress, segmentStartProgress),
                           JSSub(segmentEndProgress, segmentStartProgress))]
    ELSE [class |-> "none", t |-> Undef]

\* The for loop of renderPath from segment k on, without the drawing calls:
\* per segment its class, its local progress and the point it starts from.
\* currentPoint is <<>> for null.
RECURSIVE CanvasWalk(_, _, _, _, _, _)
CanvasWalk(pathData, progress, k, currentPoint, pathProgress, out) ==
    IF k > Len(pathData.segments) THEN out
    ELSE LET segment == pathData.segments[k]
         IN  IF Len(segment.points) = 0
             THEN CanvasWalk(pathData, progress, k + 1, currentPoint, pathProgress,
                      Append(out, [class |-> "skipped", t |-> Undef,
                                   from |-> currentPoint]))
             ELSE IF currentPoint = <<>>
             THEN CanvasWalk(pathData, progress, k + 1, <<segment.points[1]>>,
                      pathProgress,
                      Append(out, [class |-> "first", t |-> Undef,
                                   from |-> currentPoint]))
             ELSE LET segmentStart == currentPoint[1]
                      segmentEnd == segment.points[1]
                      segmentLength ==
                          CanvasSegmentLength(segment, segmentStart, segmentEnd)
                      span == SpanClass(progress,
                                  JSDiv(pathProgress, pathData.totalLength),
                                  JSDiv(JSAdd(pathProgress, segmentLength),
                                        pathData.totalLength))
                  IN  CanvasWalk(pathData, progress, k + 1, <<segmentEnd>>,
                          JSAdd(pathProgress, segmentLength),
                          Append(out, [class |-> span.class, t |-> span.t,
                                       from |-> currentPoint]))

CanvasSpans(pathData, progress) ==
    CanvasWalk(pathData, progress, 1, <<>>, N(0), <<>>)

\* The context calls the loop of renderPath makes for a segment of class
\* span.class.
CanvasOps(segment, span) ==
    CASE span.class = "first" ->
            <<[op |-> "moveTo", to |-> segment.points[1]]>>
      [] span.class = "full" -> drawSegment(segment, span.from[1])
      [] span.class = "partial" ->
            CanvasDrawPartialSegment(segment, span.from[1], span.t)
      [] OTHER -> <<>>

renderPath(pathData, progress) ==
    LET spans == CanvasSpans(pathData, progress)
    IN  [k \in 1..Len(spans) |->
            [class |-> spans[k].class, t |-> spans[k].t,
             ops |-> CanvasOps(pathData.segments[k], spans[k])]]

----------------------------------------------------------------------------
(* tty-renderer.ts: drawPathToGrid.  The result is, per segment, how the    *)
(* walk classed it and the drawLine calls it made, and the grid: the set of *)
(* pixels <<x, y>> set to true.                                             *)

\* Math.round of a finite number
JSRound(x) == (2 * x.n + x.d) \div (2 * x.d)

\* The while loop of drawLine from pixel (x, y) with error term err.
RECURSIVE Bresenham(_, _, _, _, _, _, _, _, _, _, _, _)
Bresenham(x, y, x2, y2, dx, dy, sx, sy, err, gridWidth, gridHeight, grid) ==
    LET lit == IF x >= 0 /\ x < gridWidth /\ y >= 0 /\ y < gridHeight
               THEN grid \cup {<<x, y>>} ELSE grid
        e2 == 2 * err
        stepX == e2 > -dy
        stepY == e2 < dx
    IN  IF x = x2 /\ y = y2 THEN lit
        ELSE Bresenham(IF stepX THEN x + sx ELSE x, IF stepY THEN y + sy ELSE y,
                       x2, y2, dx, dy, sx, sy,
                       err - (IF stepX THEN dy ELSE 0) + (IF stepY THEN dx ELSE 0),
                       gridWidth, gridHeight, lit)

\* p1 and p2 have finite coordinates.
drawLine(p1, p2, grid, gridWidth, gridHeight) ==
    LET x1 == JSRound(p1.x)
        y1 == JSRound(p1.y)
        x2 == JSRound(p2.x)
        y2 == JSRound(p2.y)
        dx == Abs(x2 - x1)
        dy == Abs(y2 - y1)
    IN  Bresenham(x1, y1, x2, y2, dx, dy,
                  IF x1 < x2 THEN 1 ELSE -1, IF y1 < y2 THEN 1 ELSE -1,
                  dx - dy, gridWidth, gridHeight, grid)

approximateSegmentLength(segment) ==
    IF ~HasCurve(segment) THEN N(0)
    ELSE Chord(segment.points[1], segment.points[Len(segment.points)])

\* The drawLine loop of drawFullSegment / drawPartialSegment: lines i..last
\* (i is the code's loop index, points 1-based here).
RECURSIVE DrawLines(_, _, _, _, _, _)
DrawLines(points, i, last, grid, gridWidth, gridHeight) ==
    IF i > last THEN grid
    ELSE DrawLines(points, i + 1, last,
                   drawLine(points[i], points[i + 1], grid, gridWidth, gridHeight),
                   gridWidth, gridHeight)

drawFullSegment(segment, grid, gridWidth, gridHeight) ==
    IF Len(segment.points) < 2 THEN grid
    ELSE DrawLines(segment.points, 1, Len(segment.points) - 1, grid,
                   gridWidth, gridHeight)

TTYDrawPartialSegment(segment, grid, progress, gridWidth, gridHeight) ==
    IF Len(segment.points) < 2 THEN grid
    ELSE LET totalPoints == Len(segment.points)
             endIndex == JSMax(N(1), JSFloor(JSMul(N(totalPoints), progress)))
             last == IF IsNum(endIndex) /\ endIndex.n < totalPoints - 1
                     THEN endIndex.n ELSE totalPoints - 1
         IN  DrawLines(segment.points, 1, last, grid, gridWidth, gridHeight)

\* The for loop of drawPathToGrid from segment k on.
RECURSIVE TTYWalk(_, _, _, _, _, _, _, _)
TTYWalk(pathData, progress, k, currentLength, gridWidth, gridHeight, grid, out) ==
    IF k > Len(pathData.segments) THEN [segs |-> out, grid |-> grid]
    ELSE LET segment == pathData.segments[k]
         IN  IF ~HasCurve(segment)
             THEN TTYWalk(pathData, progress, k + 1, currentLength,
                      gridWidth, gridHeight, grid,
                      Append(out, [class |-> "skipped", t |-> Undef]))
             ELSE LET segmentLength == approximateSegmentLength(segment)
                      span == SpanClass(progress,
                                  JSDiv(currentLength, pathData.totalLength),
                                  JSDiv(JSAdd(currentLength, segmentLength),
                                        pathData.totalLength))
                      drawn == CASE span.class = "full" ->
                                      drawFullSegment(segment, grid,
                                                      gridWidth, gridHeight)
                                 [] span.class = "partial" ->
                                      TTYDrawPartialSegment(segment, grid, span.t,
                                                            gridWidth, gridHeight)
                                 [] OTHER -> grid
                  IN  TTYWalk(pathData, progress, k + 1,
                          JSAdd(currentLength, segmentLength),
                          gridWidth, gridHeight, drawn,
                          Append(out, [class |-> span.class, t |-> span.t]))

drawPathToGrid(pathData, grid, progress, gridWidth, gridHeight) ==
    TTYWalk(pathData, progress, 1, N(0), gridWidth, gridHeight, grid, <<>>)

----------------------------------------------------------------------------
(* easing.ts *)

linear(t) == t

\* t < 0.5 ? 4*t*t*t : 1 - Math.pow(-2*t + 2, 3) / 2
easeInOutCubic(t) ==
    IF JSLt(t, Num(1, 2))
    THEN Strict2(JSMul, Strict2(JSMul, Strict2(JSMul, N(4), t), t), t)
    ELSE LET u == Strict2(JSAdd, Strict2(JSMul, N(-2), t), N(2))
             cube == Strict2(JSMul, Strict2(JSMul, u, u), u)
         IN  Strict2(JSSub, N(1), Strict2(JSDiv, cube, N(2)))

\* The helper cubicBezierPoint(t, p0, p1, p2, p3) of easing.ts.
EasingPoint(t, p0, p1, p2, p3) == CubicCoord(p0, p1, p2, p3, t)

\* const epsilon = 1e-6, modelled as 1/EpsilonDen.
EasingEpsilon == Num(1, EpsilonDen)

\* The binary search of cubicBezier: the final value of left.
RECURSIVE Bisect(_, _, _, _, _)
Bisect(t, p1x, p2x, left, right) ==
    IF ~JSGt(JSSub(right, left), EasingEpsilon) THEN left
    ELSE LET mid == JSDiv(JSAdd(left, right), N(2))
             x == EasingPoint(mid, N(0), p1x, p2x, N(1))
         IN  IF JSLt(x, t) THEN Bisect(t, p1x, p2x, mid, right)
             ELSE Bisect(t, p1x, p2x, left, mid)

cubicBezier(t, p1x, p1y, p2x, p2y) ==
    EasingPoint(Bisect(t, p1x, p2x, N(0), N(1)), N(0), p1y, p2y, N(1))

\* An easing argument: kind is "undefined" (not supplied), "string" (name)
\* or "array" (items).
NoEasing == [kind |-> "undefined", name |-> "", items |-> <<>>]
EasingName(name) == [kind |-> "string", name |-> name, items |-> <<>>]
EasingArray(items) == [kind |-> "array", name |-> "", items |-> items]

\* applyEasing whose default case is easeInOutCubic.
applyEasing_cubicDefault(t, easing) ==
    IF easing.kind = "string"
    THEN CASE easing.name = "linear" -> linear(t)
           [] OTHER -> easeInOutCubic(t)
    ELSE IF easing.kind = "array" /\ Len(easing.items) = 4
    THEN cubicBezier(t, easing.items[1], easing.items[2],
                     easing.items[3], easing.items[4])
    ELSE linear(t)

applyEasing(t, easing) ==
    IF easing.kind = "string"
    THEN CASE easing.name = "linear" -> linear(t)
           [] easing.name = "easeInOutCubic" -> easeInOutCubic(t)
           [] OTHER -> linear(t)
    ELSE IF easing.kind = "array" /\ Len(easing.items) = 4
    THEN cubicBezier(t, easing.items[1], easing.items[2],
                     easing.items[3], easing.items[4])
    ELSE linear(t)

\* if (easing): undefined and the empty string are falsy.
EasingGiven(easing) ==
    ~(easing.kind = "undefined" \/ (easing.kind = "string" /\ easing.name = ""))

----------------------------------------------------------------------------
(* timeline.ts *)

Directions == {"forward", "reverse", "yoyo"}

\* An absent option is "undef"; options.loop is "true", "false" or "undef".
createTimeline(options) ==
    [ startTime   |-> 0,
      currentTime |-> 0,
      duration    |-> options.durationMs,
      loop        |-> options.loop = "true",                \* options.loop || false
      direction   |-> IF options.direction = "undef" THEN "forward"
                      ELSE options.direction,
      isPlaying   |-> FALSE,
      isComplete  |-> FALSE,
      loopCount   |-> N(0) ]

\* startTimeline that leaves isComplete as it was.
startTimeline_keepComplete(tl, startTime) ==
    [tl EXCEPT !.startTime = startTime,
               !.currentTime = startTime,
               !.isPlaying = TRUE]

startTimeline(tl, startTime) ==
    [tl EXCEPT !.startTime = startTime,
               !.currentTime = startTime,
               !.isPlaying = TRUE,
               !.isComplete = FALSE]

stopTimeline(tl) == [tl EXCEPT !.isPlaying = FALSE]

resetTimeline(tl) ==
    [tl EXCEPT !.currentTime = tl.startTime,
               !.isComplete = FALSE,
               !.loopCount = N(0)]

\* The direction switch shared by updateTimeline and getTimelineProgress.
applyDirection(direction, progress) ==
    CASE direction = "reverse" -> JSSub(N(1), progress)
      [] direction = "yoyo" ->
            LET cycle == JSFloor(JSMul(progress, N(2)))
            IN  IF JSEq(JSRem(cycle, N(2)), N(0))
                THEN JSMul(progress, N(2))
                ELSE JSSub(N(2), JSMul(progress, N(2)))
      [] OTHER -> progress

\* updateTimeline with the completion test written elapsed > totalDuration.
updateTimeline_strictEnd(tl, currentTime) ==
    IF ~tl.isPlaying THEN tl
    ELSE LET elapsed == currentTime - tl.startTime
         IN  [tl EXCEPT !.currentTime = currentTime,
                        !.isComplete = ~tl.loop /\ elapsed > tl.duration,
                        !.loopCount = IF tl.loop
                                      THEN JSFloor(JSDiv(N(elapsed), N(tl.duration)))
                                      ELSE tl.loopCount]

\* updateTimeline counting a started cycle as a loop (Math.ceil).
updateTimeline_ceilCount(tl, currentTime) ==
    IF ~tl.isPlaying THEN tl
    ELSE LET elapsed == currentTime - tl.startTime
         IN  [tl EXCEPT !.currentTime = currentTime,
                        !.isComplete = ~tl.loop /\ elapsed >= tl.duration,
                        !.loopCount = IF tl.loop
                                      THEN JSCeil(JSDiv(N(elapsed), N(tl.duration)))
                                      ELSE tl.loopCount]

updateTimeline(tl, currentTime) ==
    IF ~tl.isPlaying THEN tl
    ELSE LET elapsed == currentTime - tl.startTime
             totalDuration == tl.duration
             isComplete == ~tl.loop /\ elapsed >= totalDuration
             loopCount == IF tl.loop
                          THEN JSFloor(JSDiv(N(elapsed), N(totalDuration)))
                          ELSE tl.loopCount
         IN  [tl EXCEPT !.currentTime = currentTime,
                        !.isComplete = isComplete,
                        !.loopCount = loopCount]

\* getTimelineProgress without the cycle wrap-around of a looping timeline.
getTimelineProgress_noWrap(tl, easing) ==
    IF ~tl.isPlaying THEN N(0)
    ELSE LET elapsed == tl.currentTime - tl.startTime
             raw == JSMin(JSDiv(N(elapsed), N(tl.duration)), N(1))
             directed == applyDirection(tl.direction, raw)
             eased == IF EasingGiven(easing) THEN applyEasing(directed, easing)
                      ELSE directed
         IN  JSMax(N(0), JSMin(N(1), eased))

\* getTimelineProgress returning the eased value as it is, without the final
\* Math.max(0, Math.min(1, progress)).
getTimelineProgress_noClamp(tl, easing) ==
    IF ~tl.isPlaying THEN N(0)
    ELSE LET elapsed == tl.currentTime - tl.startTime
             totalDuration == tl.duration
             raw == IF tl.loop
                    THEN JSDiv(JSRem(N(elapsed), N(totalDuration)),
                               N(totalDuration))
                    ELSE JSMin(JSDiv(N(elapsed), N(totalDuration)), N(1))
             directed == applyDirection(tl.direction, raw)
         IN  IF EasingGiven(easing) THEN applyEasing(directed, easing)
             ELSE directed

getTimelineProgress(tl, easing) ==
    IF ~tl.isPlaying THEN N(0)
    ELSE LET elapsed == tl.currentTime - tl.startTime
             totalDuration == tl.duration
             raw == IF tl.loop
                    THEN JSDiv(JSRem(N(elapsed), N(totalDuration)),
                               N(totalDuration))
                    ELSE JSMin(JSDiv(N(elapsed), N(totalDuration)), N(1))
             directed == applyDirection(tl.direction, raw)
             eased == IF EasingGiven(easing) THEN applyEasing(directed, easing)
                      ELSE directed
         IN  JSMax(N(0), JSMin(N(1), eased))

isAtStart(tl) == tl.currentTime - tl.startTime <= 0

isAtEnd(tl) == IF tl.loop THEN FALSE
               ELSE tl.currentTime - tl.startTime >= tl.duration

getRemainingTime(tl) ==
    IF tl.loop THEN PosInf
    ELSE LET elapsed == tl.currentTime - tl.startTime
         IN  JSMax(N(0), N(tl.duration - elapsed))

----------------------------------------------------------------------------
(* The timeline as a state machine: the caller holds one TimelineState and *)
(* replaces it by the result of each operation.                            *)

Times == 0..MaxTime
Durations == 1..MaxDuration

TimelineOptions ==
    [durationMs : Durations,
     loop : {"true", "false", "undef"},
     direction : Directions \cup {"undef"}]

NoCall == [fn |-> "none", done |-> TRUE]

\* No path loaded, nothing drawn yet.
NoPath == [segments |-> <<>>, totalLength |-> N(0)]
NoFrame == [renderer |-> "none", progress |-> Undef, out |-> <<>>]

\* A renderer after construction (isPlaying = false, animationId undefined,
\* written 0), a host with nothing scheduled, no animate() call made.
NewPlayer(kind) ==
    [kind |-> kind, isPlaying |-> FALSE, animationId |-> 0, cursorHidden |-> FALSE]
NewHost == [clock |-> 0, nextId |-> 1, pending |-> {}]
NoAnimation ==
    /\ player = NewPlayer("canvas")
    /\ host = NewHost
    /\ loops = <<>>

Init ==
    /\ \E options \in TimelineOptions : timeline = createTimeline(options)
    /\ lastOp = [op |-> "create", time |-> 0]
    /\ call = NoCall
    /\ loadedPathData = NoPath
    /\ frame = NoFrame
    /\ NoAnimation

Start ==
    \E t \in Times :
        /\ timeline' = startTimeline(timeline, t)
        /\ lastOp' = [op |-> "start", time |-> t]
        /\ UNCHANGED <<call, renderVars, animVars>>

Stop ==
    /\ timeline' = stopTimeline(timeline)
    /\ lastOp' = [op |-> "stop", time |-> 0]
    /\ UNCHANGED <<call, renderVars, animVars>>

Reset ==
    /\ timeline' = resetTimeline(timeline)
    /\ lastOp' = [op |-> "reset", time |-> 0]
    /\ UNCHANGED <<call, renderVars, animVars>>

Update ==
    \E t \in Times :
        /\ timeline' = updateTimeline(timeline, t)
        /\ lastOp' = [op |-> "update", time |-> t]
        /\ UNCHANGED <<call, renderVars, animVars>>

Next == Start \/ Stop \/ Reset \/ Update

Spec == Init /\ [][Next]_vars

\* The same operations on a timeline created with durationMs <= 0.
NonPositiveDurations == (-MaxDuration)..0

NonPositiveInit ==
    /\ \E options \in TimelineOptions, durationMs \in NonPositiveDurations :
          timeline = createTimeline([options EXCEPT !.durationMs = durationMs])
    /\ lastOp = [op |-> "create", time |-> 0]
    /\ call = NoCall
    /\ loadedPathData = NoPath
    /\ frame = NoFrame
    /\ NoAnimation

SpecNonPositive == NonPositiveInit /\ [][Next]_vars

----------------------------------------------------------------------------
(* The Bezier helpers as a machine: each step is one call of a library     *)
(* function on inputs drawn from bounded sets; call records it.            *)

Coords == {N(c) : c \in 0..MaxCoord}
Points == [x : Coords, y : Coords]
Cubics == [start : Points, control1 : Points, control2 : Points, end : Points]
Quadratics == [start : Points, control : Points, end : Points]
Curves == Cubics \cup Quadratics

\* The curves a LUT is built for start at the origin.
LUTCurves == {c \in Curves : c.start = Pt(N(0), N(0))}

\* Parameters inside [0,1], and parameters from -1 to 2.
UnitParams == {Num(i, ParamDen) : i \in 0..ParamDen}
EvalParams == {Num(i, ParamDen) : i \in (-ParamDen)..(2 * ParamDen)}

Resolutions == {N(1), N(4)}

\* Target lengths around and inside [0, totalLength].
Targets(lut) ==
    {N(-1), JSAdd(lut.totalLength, N(1))}
      \cup {JSDiv(JSMul(lut.totalLength, N(i)), N(TargetDen)) : i \in 0..TargetDen}

IdleTimeline ==
    createTimeline([durationMs |-> 1, loop |-> "undef", direction |-> "undef"])

\* The arguments of the run's call are drawn once, in the initial state.
\* The progress values frames are drawn at and easings are applied to.
Progresses == {Num(i, ProgressDen) : i \in 0..ProgressDen}

\* Easing arguments: the two names, names the code does not know, tuples of
\* four numbers, arrays of another length, and undefined.
EasingArgs ==
    {NoEasing, EasingName("linear"), EasingName("easeInOutCubic"),
     EasingName("bounce"), EasingName("ease-in"), EasingName(""),
     EasingArray(<<Num(1, 4), Num(1, 10), Num(1, 4), N(1)>>),
     EasingArray(<<>>), EasingArray(<<N(0), N(1)>>),
     EasingArray(<<N(0), N(0), N(1), N(1), N(1)>>)}

BezierInit ==
    /\ timeline = IdleTimeline
    /\ lastOp = [op |-> "create", time |-> 0]
    /\ loadedPathData = NoPath
    /\ frame = NoFrame
    /\ NoAnimation
    /\ \/ \E c \in Curves, t \in EvalParams :
            call = [fn |-> "bezierPoint", curve |-> c, t |-> t, done |-> FALSE]
       \/ \E c \in Cubics, t \in UnitParams :
            call = [fn |-> "splitCubicBezier", curve |-> c, t |-> t,
                    done |-> FALSE]
       \/ \E c \in LUTCurves, r \in Resolutions :
            call = [fn |-> "createBezierLUT", curve |-> c, resolution |-> r,
                    done |-> FALSE]
       \/ \E t \in Progresses, easing \in EasingArgs :
            call = [fn |-> "applyEasing", t |-> t, easing |-> easing,
                    done |-> FALSE]

EvalPoint ==
    /\ call.fn = "bezierPoint" /\ ~call.done
    /\ call' = [fn |-> "bezierPoint", curve |-> call.curve, t |-> call.t,
                done |-> TRUE, result |-> bezierPoint(call.curve, call.t)]
    /\ UNCHANGED <<timelineVars, renderVars, animVars>>

Split ==
    /\ call.fn = "splitCubicBezier" /\ ~call.done
    /\ call' = [fn |-> "splitCubicBezier", curve |-> call.curve, t |-> call.t,
                done |-> TRUE, result |-> splitCubicBezier(call.curve, call.t)]
    /\ UNCHANGED <<timelineVars, renderVars, animVars>>

BuildLUT ==
    /\ call.fn = "createBezierLUT" /\ ~call.done
    /\ call' = [fn |-> "createBezierLUT", curve |-> call.curve,
                resolution |-> call.resolution, done |-> TRUE,
                result |-> createBezierLUT(call.curve, call.resolution)]
    /\ UNCHANGED <<timelineVars, renderVars, animVars>>

\* lengthToParameter on the LUT that createBezierLUT returned.
Lookup ==
    /\ call.fn = "createBezierLUT" /\ call.done
    /\ \E target \in Targets(call.result) :
        call' = [fn |-> "lengthToParameter", lut |-> call.result,
                 target |-> target, done |-> TRUE,
                 result |-> lengthToParameter(call.result, target)]
    /\ UNCHANGED <<timelineVars, renderVars, animVars>>

Ease ==
    /\ call.fn = "applyEasing" /\ ~call.done
    /\ call' = [fn |-> "applyEasing", t |-> call.t, easing |-> call.easing,
                done |-> TRUE, result |-> applyEasing(call.t, call.easing)]
    /\ UNCHANGED <<timelineVars, renderVars, animVars>>

BezierNext == EvalPoint \/ Split \/ BuildLUT \/ Lookup \/ Ease

SpecBezier == BezierInit /\ [][BezierNext]_vars

----------------------------------------------------------------------------
(* The renderers as a machine: one path is parsed and loaded into both the *)
(* canvas and the terminal renderer; a run draws one frame of it, on one   *)
(* of the two, at one progress value.                                      *)

PathPoints == {Pt(N(x), N(0)) : x \in 0..MaxPathX}

\* Absolute commands ending in p; the control points lie off the line y = 0.
MoveTo(p) == [type |-> "M", args |-> <<p.x, p.y>>]
LineTo(p) == [type |-> "L", args |-> <<p.x, p.y>>]
CurveTo(p) == [type |-> "C", args |-> <<N(0), N(1), p.x, N(1), p.x, p.y>>]
QuadTo(p) == [type |-> "Q", args |-> <<N(1), N(1), p.x, p.y>>]
ClosePath == [type |-> "Z", args |-> <<>>]

PathCommands ==
    {MoveTo(p) : p \in PathPoints} \cup {LineTo(p) : p \in PathPoints}
      \cup {CurveTo(p) : p \in PathPoints} \cup {QuadTo(p) : p \in PathPoints}
      \cup {ClosePath}

Paths ==
    {<<MoveTo(Pt(N(0), N(0)))>> \o tail :
        tail \in UNION {[1..n -> PathCommands] : n \in 0..MaxSegments}}

\* renderer.loadPathData(createPathData(pathString)) at construction
RenderInit ==
    /\ timeline = IdleTimeline
    /\ lastOp = [op |-> "create", time |-> 0]
    /\ call = NoCall
    /\ \E commands \in Paths :
          LET pd == createPathData(commands)
          IN  loadedPathData = [segments |-> pd.segments, totalLength |-> pd.totalLength]
    /\ frame = NoFrame
    /\ NoAnimation

\* CanvasRenderer.render(progress), one path loaded
CanvasRender ==
    \E progress \in Progresses :
        /\ frame = NoFrame
        /\ frame' = [renderer |-> "canvas", progress |-> progress,
                     out |-> renderPath(loadedPathData, progress)]
        /\ UNCHANGED <<timelineVars, call, loadedPathData, animVars>>

\* TTYRenderer.renderBlockFrame(progress), one path loaded, on an empty grid
TTYRender ==
    \E progress \in Progresses :
        /\ frame = NoFrame
        /\ frame' = [renderer |-> "tty", progress |-> progress,
                     out |-> drawPathToGrid(loadedPathData, {}, progress,
                                            GridWidth, GridHeight)]
        /\ UNCHANGED <<timelineVars, call, loadedPathData, animVars>>

RenderNext == CanvasRender \/ TTYRender

SpecRender == RenderInit /\ [][RenderNext]_vars

----------------------------------------------------------------------------
(* animate() and stop() of SVGRenderer, CanvasRenderer and TTYRenderer.  The *)
(* three share the code; they differ in the host call that schedules the    *)
(* next frame (requestAnimationFrame / setTimeout) and the terminal cursor. *)
(* loops[i] is the i-th animate() call: its closure variables and the log   *)
(* of what it has done ("render", "onUpdate", "onComplete", "resolve").     *)
(* host.pending holds the scheduled callbacks [id, loop, at].  The host     *)
(* fires a callback at a later clock reading than the one it was scheduled  *)
(* at (a display frame, or a timer of 1000 / frameRate ms).                 *)

RendererKinds == {"svg", "canvas", "tty"}
TimingFunctions == {"linear", "easeInOutCubic"}
AnimDurations == 1..MaxAnimDuration

\* timingFunction(rawProgress); the default is (t) => t.
Timing(timingFunction, t) ==
    IF timingFunction = "easeInOutCubic" THEN easeInOutCubic(t) ELSE linear(t)

\* animateFrame that ends the animation on the first frame with elapsed > 0.
animateFrame_early(p, h, ls, i) ==
    IF ~p.isPlaying THEN [player |-> p, host |-> h, loops |-> ls]
    ELSE LET elapsed == h.clock - ls[i].startTime
             rawProgress == JSMin(JSDiv(N(elapsed), N(ls[i].duration)), N(1))
             drawn == [ls[i] EXCEPT !.log = @ \o <<"render", "onUpdate">>,
                                    !.rawProgress = rawProgress,
                                    !.progress = Timing(ls[i].timingFunction,
                                                        rawProgress)]
         IN  IF ~JSGt(rawProgress, N(0))
             THEN [player |-> [p EXCEPT !.animationId = h.nextId],
                   host |-> [h EXCEPT !.nextId = @ + 1,
                                      !.pending = @ \cup {[id |-> h.nextId,
                                                           loop |-> i,
                                                           at |-> h.clock]}],
                   loops |-> [ls EXCEPT ![i] = drawn]]
             ELSE [player |-> [p EXCEPT !.isPlaying = FALSE,
                                        !.cursorHidden = FALSE],
                   host |-> h,
                   loops |-> [ls EXCEPT ![i] =
                                 [drawn EXCEPT !.log = @ \o <<"onComplete", "resolve">>,
                                               !.resolved = TRUE]]]

\* The closure animateFrame of loop i, run on renderer p and host h.
animateFrame(p, h, ls, i) ==
    IF ~p.isPlaying THEN [player |-> p, host |-> h, loops |-> ls]
    ELSE LET elapsed == h.clock - ls[i].startTime
             rawProgress == JSMin(JSDiv(N(elapsed), N(ls[i].duration)), N(1))
             drawn == [ls[i] EXCEPT !.log = @ \o <<"render", "onUpdate">>,
                                    !.rawProgress = rawProgress,
                                    !.progress = Timing(ls[i].timingFunction,
                                                        rawProgress)]
         IN  IF JSLt(rawProgress, N(1))
             THEN [player |-> [p EXCEPT !.animationId = h.nextId],
                   host |-> [h EXCEPT !.nextId = @ + 1,
                                      !.pending = @ \cup {[id |-> h.nextId,
                                                           loop |-> i,
                                                           at |-> h.clock]}],
                   loops |-> [ls EXCEPT ![i] = drawn]]
             ELSE [player |-> [p EXCEPT !.isPlaying = FALSE,
                                        !.cursorHidden = FALSE],
                   host |-> h,
                   loops |-> [ls EXCEPT ![i] =
                                 [drawn EXCEPT !.log = @ \o <<"onComplete", "resolve">>,
                                               !.resolved = TRUE]]]

\* animate(duration, timingFunction, onUpdate, onComplete): the promise
\* executor, which runs the first frame before it returns.
animate(p, h, ls, duration, timingFunction) ==
    animateFrame([p EXCEPT !.isPlaying = TRUE,
                           !.cursorHidden = (p.kind = "tty")],
                 h,
                 Append(ls, [startTime |-> h.clock, duration |-> duration,
                             timingFunction |-> timingFunction,
                             log |-> <<>>, rawProgress |-> Undef,
                             progress |-> Undef, resolved |-> FALSE,
                             stopped |-> FALSE]),
                 Len(ls) + 1)

\* stop(); every animate() call made so far is marked as stopped.
stop(p, h, ls) ==
    [player |-> [p EXCEPT !.isPlaying = FALSE, !.animationId = 0,
                          !.cursorHidden = FALSE],
     host |-> IF p.animationId # 0
              THEN [h EXCEPT !.pending = {cb \in @ : cb.id # p.animationId}]
              ELSE h,
     loops |-> [i \in 1..Len(ls) |-> [ls[i] EXCEPT !.stopped = TRUE]]]

NotAnimating == UNCHANGED <<timelineVars, call, renderVars>>

AnimInit ==
    /\ timeline = IdleTimeline
    /\ lastOp = [op |-> "create", time |-> 0]
    /\ call = NoCall
    /\ loadedPathData = NoPath
    /\ frame = NoFrame
    /\ \E kind \in RendererKinds : player = NewPlayer(kind)
    /\ host = NewHost
    /\ loops = <<>>

RendererAnimate ==
    \E duration \in AnimDurations, timingFunction \in TimingFunctions :
        /\ Len(loops) < MaxLoops
        /\ LET r == animate(player, host, loops, duration, timingFunction)
           IN  player' = r.player /\ host' = r.host /\ loops' = r.loops
        /\ NotAnimating

RendererStop ==
    /\ LET r == stop(player, host, loops)
       IN  player' = r.player /\ host' = r.host /\ loops' = r.loops
    /\ NotAnimating

\* The host runs a pending frame callback.
FireFrame ==
    \E cb \in host.pending :
        /\ host.clock > cb.at
        /\ LET r == animateFrame(player,
                                 [host EXCEPT !.pending = @ \ {cb}],
                                 loops, cb.loop)
           IN  player' = r.player /\ host' = r.host /\ loops' = r.loops
        /\ NotAnimating

Tick ==
    /\ host.clock < MaxClock
    /\ host' = [host EXCEPT !.clock = @ + 1]
    /\ UNCHANGED <<player, loops>>
    /\ NotAnimating

AnimNext == RendererAnimate \/ RendererStop \/ FireFrame \/ Tick

SpecAnimate == AnimInit /\ [][AnimNext]_vars

\* One animate() call that can end by MaxClock, and no stop().
AnimateOnce ==
    \E duration \in AnimDurations, timingFunction \in TimingFunctions :
        /\ Len(loops) = 0
        /\ host.clock + duration <= MaxClock
        /\ LET r == animate(player, host, loops, duration, timingFunction)
           IN  player' = r.player /\ host' = r.host /\ loops' = r.loops
        /\ NotAnimating

AnimOnceNext == AnimateOnce \/ FireFrame \/ Tick

\* The host keeps firing the scheduled callback and the clock advances.
SpecAnimateOnce ==
    AnimInit /\ [][AnimOnceNext]_vars /\ WF_vars(FireFrame) /\ WF_vars(Tick)

----------------------------------------------------------------------------
(* tty-trace.ts: ttyTrace(source, options) builds a TTYRenderer and awaits  *)
(* one renderer.animate call whose onComplete resets the renderer unless    *)
(* options.loop is set.  call holds the options, whether animate has been   *)
(* called (started) and whether the promise of ttyTrace has resolved (done).*)

\* TTYRenderer.reset(): stop(), then the screen and the buffers are cleared.
reset(p, h, ls) == stop(p, h, ls)

\* The onComplete callback ttyTrace passes to animate.
ttyTraceOnComplete(loop, p, h, ls) ==
    IF ~loop THEN reset(p, h, ls) ELSE [player |-> p, host |-> h, loops |-> ls]

\* What a step that ran animateFrame leaves, r, given the loops before it:
\* when the frame completed a loop, onComplete has run before resolve().
AfterFrame(loop, before, r) ==
    IF \E i \in 1..Len(r.loops) :
          r.loops[i].resolved /\ (i > Len(before) \/ ~before[i].resolved)
    THEN ttyTraceOnComplete(loop, r.player, r.host, r.loops)
    ELSE r

TTYTraceInit ==
    /\ timeline = IdleTimeline
    /\ lastOp = [op |-> "create", time |-> 0]
    /\ \E durationMs \in AnimDurations, easing \in TimingFunctions, loop \in BOOLEAN :
          call = [fn |-> "ttyTrace", durationMs |-> durationMs, easing |-> easing,
                  loop |-> loop, started |-> FALSE, done |-> FALSE]
    /\ loadedPathData = NoPath
    /\ frame = NoFrame
    /\ player = NewPlayer("tty")
    /\ host = NewHost
    /\ loops = <<>>

\* await renderer.animate(durationMs, timing, undefined, onComplete): the call.
TTYTraceAnimate ==
    /\ call.fn = "ttyTrace" /\ ~call.started
    /\ LET r == AfterFrame(call.loop, loops,
                          animate(player, host, loops, call.durationMs, call.easing))
       IN  /\ player' = r.player /\ host' = r.host /\ loops' = r.loops
           /\ call' = [call EXCEPT !.started = TRUE,
                                   !.done = r.loops[Len(r.loops)].resolved]
    /\ UNCHANGED <<timelineVars, renderVars>>

\* The timer of the renderer runs animateFrame; when the animation completes
\* the awaited promise resolves and ttyTrace returns.
TTYTraceFrame ==
    /\ call.fn = "ttyTrace"
    /\ \E cb \in host.pending :
          /\ host.clock > cb.at
          /\ LET r == AfterFrame(call.loop, loops,
                                animateFrame(player,
                                             [host EXCEPT !.pending = @ \ {cb}],
                                             loops, cb.loop))
             IN  /\ player' = r.player /\ host' = r.host /\ loops' = r.loops
                 /\ call' = [call EXCEPT !.done = r.loops[cb.loop].resolved]
    /\ UNCHANGED <<timelineVars, renderVars>>

TTYTraceNext == TTYTraceAnimate \/ TTYTraceFrame \/ Tick

SpecTTYTrace == TTYTraceInit /\ [][TTYTraceNext]_vars

----------------------------------------------------------------------------
(* createPathData(pathString) / parsePathData(pathString) on path strings   *)
(* drawn at the start: call holds the argument, then also the results.      *)

\* The decimal lexeme of a small natural number.
Decimal(i) == CASE i = 0 -> "0" [] i = 1 -> "1" [] i = 2 -> "2" [] i = 3 -> "3"

PolyPoints == (0..MaxPolyCoord) \X (0..MaxPolyCoord)

\* "M x0 y0 L x1 y1 ... L xn yn Z"
RECURSIVE LineTos(_, _)
LineTos(points, k) ==
    IF k > Len(points) THEN <<>>
    ELSE <<"L", Decimal(points[k][1]), Decimal(points[k][2])>> \o LineTos(points, k + 1)

PolylineString(points) ==
    <<"M", Decimal(points[1][1]), Decimal(points[1][2])>> \o LineTos(points, 2) \o <<"Z">>

\* Pieces of path strings: every command, relative forms, repeated argument
\* groups, a letter that is no command, non-numeric and missing arguments.
Chunks ==
    { <<"M", "0", "1", "1", "1">>,
      <<"l", "1", "0">>,
      <<"h", "1", "V", "2">>,
      <<"C", "0", "1", "1", "1", "1", "0">>,
      <<"s", "1", "1", "1", "0", "1", "1", "1", "0">>,
      <<"Q", "1", "1", "2", "0">>,
      <<"T", "1", "0", "2", "0">>,
      <<"A", "1", "1", "0", "0", "1", "2", "1">>,
      <<"Z">>,
      <<"X", "2", "2">>,
      <<"L", "foo", "2px", "1">> }

RECURSIVE Flatten(_, _)
Flatten(chunks, k) ==
    IF k > Len(chunks) THEN <<>> ELSE chunks[k] \o Flatten(chunks, k + 1)

ParseCall(pathString) ==
    [fn |-> "createPathData", pathString |-> pathString, done |-> FALSE]

ParseInit ==
    /\ timeline = IdleTimeline
    /\ lastOp = [op |-> "create", time |-> 0]
    /\ \/ \E n \in 0..MaxPolyline : \E points \in [1..(n + 1) -> PolyPoints] :
             call = ParseCall(PolylineString(points))
       \/ \E n \in 0..MaxChunks : \E chunks \in [1..n -> Chunks] :
             call = ParseCall(Flatten(chunks, 1))
    /\ loadedPathData = NoPath
    /\ frame = NoFrame
    /\ NoAnimation

\* createPathData(pathString), which parses the string itself.
ParsePath ==
    /\ ~call.done
    /\ call.fn = "createPathData"
    /\ LET commands == tokenizePath(call.pathString)
       IN  call' = [fn |-> call.fn, pathString |-> call.pathString, done |-> TRUE,
                    segments |-> parsePathData(commands),
                    pathData |-> createPathData(commands)]
    /\ UNCHANGED <<timelineVars, renderVars, animVars>>

ParseNext == ParsePath

SpecParse == ParseInit /\ [][ParseNext]_vars

----------------------------------------------------------------------------
(* apps/cli index.ts: the live, export and html subcommands.  An option is  *)
(* <<>> when it is not on the command line and <<value>> when it is; call   *)
(* holds the parsed command line and, once the action has run, the exit     *)
(* code, what went to standard error and the files written.                 *)

CLICommands == {"live", "export", "html"}

\* The files fs.readFile can read.
ReadableFiles == {"logo.svg"}

SvgOptions == {<<>>, <<"">>, <<"logo.svg">>, <<"missing.svg">>}
PathOptions == {<<>>, <<"">>, <<"M 0 0 L 1 0">>}
OutOptions == {<<>>, <<"anim.html">>}

\* if (option): undefined and the empty string are falsy.
Truthy(option) == option # <<>> /\ option[1] # ""

\* getSourceFromOptions that looks at --path first.
getSourceFromOptions_pathFirst(options) ==
    IF Truthy(options.path)
    THEN [threw |-> FALSE, source |-> [kind |-> "paths", value |-> options.path[1]]]
    ELSE IF Truthy(options.svg)
    THEN IF options.svg[1] \in ReadableFiles
         THEN [threw |-> FALSE, source |-> [kind |-> "svg", value |-> options.svg[1]]]
         ELSE [threw |-> TRUE, message |-> "ENOENT: no such file or directory"]
    ELSE [threw |-> TRUE, message |-> "Must specify either --svg or --path option"]

\* getSourceFromOptions: the source, or the error thrown.
getSourceFromOptions(options) ==
    IF Truthy(options.svg)
    THEN IF options.svg[1] \in ReadableFiles
         THEN [threw |-> FALSE, source |-> [kind |-> "svg", value |-> options.svg[1]]]
         ELSE [threw |-> TRUE, message |-> "ENOENT: no such file or directory"]
    ELSE IF Truthy(options.path)
    THEN [threw |-> FALSE, source |-> [kind |-> "paths", value |-> options.path[1]]]
    ELSE [threw |-> TRUE, message |-> "Must specify either --svg or --path option"]

\* The action of a subcommand: try { ... } catch { console.error; exit(1) }.
\* used is the source the command worked on (<<>> if none).
RunAction(command, options) ==
    LET got == getSourceFromOptions(options)
        outputPath == IF Truthy(options.out) THEN options.out[1]
                      ELSE IF command = "export" THEN "output.html" ELSE "trace.html"
    IN  IF got.threw
        THEN [exitCode |-> 1, stderr |-> <<"Error:", got.message>>,
              written |-> {}, used |-> <<>>]
        ELSE [exitCode |-> 0, stderr |-> <<>>,
              written |-> IF command = "live" THEN {} ELSE {outputPath},
              used |-> <<got.source>>]

CLIInit ==
    /\ timeline = IdleTimeline
    /\ lastOp = [op |-> "create", time |-> 0]
    /\ \E command \in CLICommands, svg \in SvgOptions, path \in PathOptions,
          out \in OutOptions :
          call = [fn |-> "cli", command |-> command,
                  options |-> [svg |-> svg, path |-> path, out |-> out],
                  done |-> FALSE]
    /\ loadedPathData = NoPath
    /\ frame = NoFrame
    /\ NoAnimation

RunCommand ==
    /\ call.fn = "cli" /\ ~call.done
    /\ call' = [fn |-> "cli", command |-> call.command, options |-> call.options,
                done |-> TRUE, result |-> RunAction(call.command, call.options)]
    /\ UNCHANGED <<timelineVars, renderVars, animVars>>

CLINext == RunCommand

SpecCLI == CLIInit /\ [][CLINext]_vars

----------------------------------------------------------------------------
(* renderer-react: the Trace component and the useTrace hook, with loop =   *)
(* false.  call holds the props, the React state (state), the state the     *)
(* committed render saw (rendered: startAnimation / play close over its     *)
(* isPlaying and are new functions whenever it changes), and the number of  *)
(* onStart and onEnd calls.                                                 *)

ReactComponents == {"Trace", "useTrace"}
WebRendererKinds == {"svg", "canvas"}

\* useState(0), useState(false), useState(false)
InitialState == [progress |-> N(0), isPlaying |-> FALSE, isComplete |-> FALSE]

\* startAnimation / play of the committed render, called on component c.
startAnimation(c, p, h, ls) ==
    IF c.rendered.isPlaying
    THEN [call |-> c, player |-> p, host |-> h, loops |-> ls]
    ELSE LET r == animate(p, h, ls, c.duration, c.timingFunction)
         IN  [call |-> [c EXCEPT !.state.isPlaying = TRUE,
                                 !.state.isComplete = FALSE,
                                 !.state.progress = r.loops[Len(r.loops)].progress,
                                 !.onStart = IF c.component = "Trace" THEN @ + 1
                                             ELSE @],
              player |-> r.player, host |-> r.host, loops |-> r.loops]

\* The code after the await in startAnimation / play.
afterAnimate(c) ==
    [c EXCEPT !.state.isPlaying = FALSE,
              !.state.isComplete = (c.component = "useTrace"),
              !.onEnd = IF c.component = "Trace" THEN @ + 1 ELSE @]

\* useEffect(() => { if (autoPlay && rendererRef.current) play() },
\*           [autoPlay, play])
autoPlayEffect(c, p, h, ls) ==
    IF c.autoPlay THEN startAnimation(c, p, h, ls)
    ELSE [call |-> c, player |-> p, host |-> h, loops |-> ls]

TraceInit ==
    /\ timeline = IdleTimeline
    /\ lastOp = [op |-> "create", time |-> 0]
    /\ \E component \in ReactComponents, autoPlay \in BOOLEAN,
          duration \in AnimDurations, timingFunction \in TimingFunctions :
          call = [fn |-> "Trace", component |-> component, autoPlay |-> autoPlay,
                  duration |-> duration, timingFunction |-> timingFunction,
                  mounted |-> FALSE, state |-> InitialState,
                  rendered |-> InitialState, onStart |-> 0, onEnd |-> 0,
                  done |-> FALSE]
    /\ loadedPathData = NoPath
    /\ frame = NoFrame
    /\ \E kind \in WebRendererKinds : player = NewPlayer(kind)
    /\ host = NewHost
    /\ loops = <<>>

\* The first render and its effects: initializeRenderer, then auto-play.
TraceMount ==
    /\ call.fn = "Trace" /\ ~call.mounted
    /\ LET r == autoPlayEffect([call EXCEPT !.mounted = TRUE], player, host, loops)
       IN  call' = r.call /\ player' = r.player /\ host' = r.host
             /\ loops' = r.loops
    /\ UNCHANGED <<timelineVars, renderVars>>

\* A state update is committed: the component renders again, and the
\* auto-play effect runs when startAnimation / play is a new function.
TraceRerender ==
    /\ call.fn = "Trace" /\ call.mounted
    /\ call.state # call.rendered
    /\ LET c == [call EXCEPT !.rendered = call.state]
           r == IF call.state.isPlaying # call.rendered.isPlaying
                THEN autoPlayEffect(c, player, host, loops)
                ELSE [call |-> c, player |-> player, host |-> host, loops |-> loops]
       IN  /\ Len(r.loops) <= MaxLoops
           /\ call' = r.call /\ player' = r.player /\ host' = r.host
           /\ loops' = r.loops
    /\ UNCHANGED <<timelineVars, renderVars>>

\* The host runs a frame callback: onUpdate sets the progress state; when
\* the promise resolves, the code after the await runs.
TraceFrame ==
    /\ call.fn = "Trace"
    /\ \E cb \in host.pending :
        /\ host.clock > cb.at
        /\ LET r == animateFrame(player, [host EXCEPT !.pending = @ \ {cb}],
                                 loops, cb.loop)
               drawn == IF player.isPlaying
                        THEN [call EXCEPT !.state.progress = r.loops[cb.loop].progress]
                        ELSE call
           IN  /\ call' = IF r.loops[cb.loop].resolved /\ ~loops[cb.loop].resolved
                          THEN afterAnimate(drawn) ELSE drawn
               /\ player' = r.player /\ host' = r.host /\ loops' = r.loops
    /\ UNCHANGED <<timelineVars, renderVars>>

\* stop() returned by useTrace.
TraceStop ==
    /\ call.fn = "Trace" /\ call.mounted /\ call.component = "useTrace"
    /\ LET r == stop(player, host, loops)
       IN  player' = r.player /\ host' = r.host /\ loops' = r.loops
    /\ call' = [call EXCEPT !.state.isPlaying = FALSE]
    /\ UNCHANGED <<timelineVars, renderVars>>

TraceNext == TraceMount \/ TraceRerender \/ TraceFrame \/ TraceStop \/ Tick

SpecTrace == TraceInit /\ [][TraceNext]_vars

----------------------------------------------------------------------------
(* Claims about the timeline *)

Elapsed == timeline.currentTime - timeline.startTime

\* The raw (pre-direction) progress as the specification states it.
RawProgress ==
    IF timeline.loop THEN Num(Elapsed % timeline.duration, timeline.duration)
    ELSE IF Elapsed >= timeline.duration THEN N(1)
    ELSE Num(Elapsed, timeline.duration)

\* C7: for a playing timeline with duration > 0, direction forward and no
\* easing, the progress at elapsed = duration is exactly 1 without loop and
\* exactly 0 with loop; for elapsed >= 0 it is min(elapsed/duration, 1) without
\* loop and (elapsed mod duration)/duration with loop.
C7_ForwardProgress ==
    (/\ timeline.isPlaying /\ timeline.duration > 0
     /\ timeline.direction = "forward" /\ Elapsed >= 0)
    => LET p == getTimelineProgress(timeline, NoEasing)
       IN  /\ p = RawProgress
           /\ Elapsed = timeline.duration
                => p = (IF timeline.loop THEN N(0) ELSE N(1))

C7_Witness ==
    /\ timeline.isPlaying /\ timeline.loop /\ timeline.direction = "forward"
    /\ timeline.duration > 1
    /\ Elapsed = timeline.duration
    /\ lastOp.op = "update"
    /\ getTimelineProgress(timeline, NoEasing) = N(0)

\* C8: with direction yoyo and no easing the progress is the triangle wave of
\* the raw progress r: 2r in the rising half, 2 - 2r in the falling half, so
\* it is 0.5 at r = 0.25 and at r = 0.75 and back down at 0 when r reaches 1.
C8_YoyoTriangle ==
    (/\ timeline.isPlaying /\ timeline.duration > 0
     /\ timeline.direction = "yoyo" /\ Elapsed >= 0)
    => LET r == RawProgress
           p == getTimelineProgress(timeline, NoEasing)
       IN  /\ JSLe(r, Num(1, 2)) => p = JSMul(N(2), r)
           /\ JSGt(r, Num(1, 2)) => p = JSSub(N(2), JSMul(N(2), r))
           /\ r = N(1) => p = N(0)

\* C9: stopTimeline and resetTimeline both return an idle state
\* (isPlaying = FALSE); stop changes no other field; reset sets currentTime to
\* startTime, isComplete to FALSE and loopCount to 0 and leaves startTime,
\* duration, loop and direction unchanged.
C9_StopResetIdle ==
    [][/\ lastOp'.op = "stop"
            => timeline' = [timeline EXCEPT !.isPlaying = FALSE]
       /\ lastOp'.op = "reset"
            => timeline' = [timeline EXCEPT !.isPlaying = FALSE,
                                            !.currentTime = timeline.startTime,
                                            !.isComplete = FALSE,
                                            !.loopCount = N(0)]]_vars

\* C10: an update of a playing non-looping timeline leaves it complete exactly
\* when the update's time minus startTime is at least the duration; a complete
\* timeline stays complete under updates whose time does not decrease; a
\* looping timeline is never complete.
C10_Completion ==
    /\ [](timeline.loop => ~timeline.isComplete)
    /\ [][lastOp'.op = "update" =>
            /\ (timeline.isPlaying /\ ~timeline.loop)
                 => (timeline'.isComplete
                       <=> lastOp'.time - timeline.startTime >= timeline.duration)
            /\ (timeline.isComplete /\ lastOp'.time >= timeline.currentTime)
                 => timeline'.isComplete]_vars

C10_Witness ==
    /\ lastOp.op = "update" /\ timeline.isPlaying /\ ~timeline.loop
    /\ timeline.isComplete
    /\ lastOp.time - timeline.startTime = timeline.duration

\* The easing arguments tried: none, the two names, an unknown name, the empty
\* string, the CSS "ease" tuple, an overshooting tuple and a 2-element array.
Easings ==
    {NoEasing, EasingName("linear"), EasingName("easeInOutCubic"),
     EasingName("bounce"), EasingName(""),
     EasingArray(<<Num(1, 4), Num(1, 10), Num(1, 4), N(1)>>),
     EasingArray(<<N(0), N(2), N(1), N(-1)>>),
     EasingArray(<<N(0), N(1)>>)}

InUnitInterval(x) == IsNum(x) /\ JSGe(x, N(0)) /\ JSLe(x, N(1))

Clamp01(x) == IF JSLt(x, N(0)) THEN N(0) ELSE IF JSGt(x, N(1)) THEN N(1) ELSE x

\* The progress of the timeline after the direction switch, before easing.
DirectedProgress ==
    applyDirection(timeline.direction,
        IF timeline.loop
        THEN JSDiv(JSRem(N(Elapsed), N(timeline.duration)), N(timeline.duration))
        ELSE JSMin(Num(Elapsed, timeline.duration), N(1)))

\* C11: in every timeline state reachable from createTimeline with duration > 0
\* by start, update (at any time, also before startTime), stop and reset, for
\* every direction and every easing argument, getTimelineProgress is a number
\* in [0,1]: the easing of the direction-remapped progress, clamped.
C11_ProgressInUnitInterval ==
    timeline.duration > 0
    => \A easing \in Easings :
          LET p == getTimelineProgress(timeline, easing)
          IN  /\ InUnitInterval(p)
              /\ timeline.isPlaying
                   => p = Clamp01(applyEasing(DirectedProgress, easing))

\* An update before startTime on a yoyo timeline: the eased value is above 1
\* and the progress returned is 1.
C11_Witness ==
    /\ timeline.isPlaying /\ timeline.duration > 0 /\ lastOp.op = "update"
    /\ Elapsed < 0 /\ timeline.direction = "yoyo"
    /\ JSGt(applyEasing(DirectedProgress, EasingName("easeInOutCubic")), N(1))
    /\ getTimelineProgress(timeline, EasingName("easeInOutCubic")) = N(1)
    /\ InUnitInterval(getTimelineProgress(timeline,
                          EasingArray(<<N(0), N(2), N(1), N(-1)>>)))


\* C12: for a playing looping timeline, an update at startTime + e, e >= 0,
\* stores loopCount = floor(e / duration): k at exactly k * duration, one more
\* at each multiple of duration, and never less than the count stored by the
\* previous update when the time has not decreased.
C12_LoopCount ==
    [][(/\ lastOp'.op = "update"
        /\ timeline.isPlaying /\ timeline.loop
        /\ lastOp'.time >= timeline.startTime)
       => LET e == lastOp'.time - timeline.startTime
          IN  /\ timeline'.loopCount = N(e \div timeline.duration)
              /\ (lastOp.op = "update" /\ Elapsed >= 0
                    /\ lastOp'.time >= timeline.currentTime)
                   => JSGe(timeline'.loopCount, timeline.loopCount)
              /\ (lastOp.op = "update" /\ Elapsed >= 0
                    /\ lastOp'.time = timeline.currentTime + 1)
                   => timeline'.loopCount
                        = JSAdd(timeline.loopCount,
                                IF e % timeline.duration = 0 THEN N(1) ELSE N(0))]_vars

C12_Witness ==
    /\ lastOp.op = "update" /\ timeline.isPlaying /\ timeline.loop
    /\ timeline.duration > 1
    /\ Elapsed = 2 * timeline.duration
    /\ timeline.loopCount = N(2)


\* C15: a timeline created with durationMs <= 0 (in particular 0) falls back
\* to a safe value: once started, after any update, getTimelineProgress is a
\* number in [0,1] (never NaN), and a non-looping timeline updated at or
\* after its start time is complete.
C15_NonPositiveDuration ==
    timeline.isPlaying /\ lastOp.op \in {"start", "update"} =>
        /\ InUnitInterval(getTimelineProgress(timeline, NoEasing))
        /\ (lastOp.op = "update" /\ ~timeline.loop /\ Elapsed >= 0
               => timeline.isComplete)

\* C29: in every state reached from createTimeline (durationMs > 0) by
\* startTimeline, updateTimeline, stopTimeline and resetTimeline, the stored
\* isComplete is true exactly when isAtEnd is, that is when loop is false and
\* currentTime - startTime >= duration; getRemainingTime is 0 exactly in
\* those states and is Infinity whenever loop is true.
C29_CompleteIffAtEnd ==
    /\ timeline.isComplete = isAtEnd(timeline)
    /\ isAtEnd(timeline) =
          (~timeline.loop
             /\ timeline.currentTime - timeline.startTime >= timeline.duration)
    /\ (getRemainingTime(timeline) = N(0)) = isAtEnd(timeline)
    /\ timeline.loop => getRemainingTime(timeline) = PosInf

\* A timeline that completed and was stopped afterwards.
C29_Witness ==
    /\ timeline.isComplete /\ isAtEnd(timeline)
    /\ getRemainingTime(timeline) = N(0)
    /\ ~timeline.isPlaying
    /\ lastOp.op = "stop"

----------------------------------------------------------------------------
(* Claims about the Bezier helpers (checked under SpecBezier) *)

\* C4: splitCubicBezier(curve, t) is the de Casteljau subdivision for t in
\* [0,1]: first.start = curve.start, second.end = curve.end, first.end =
\* second.start = cubicBezierPoint(curve, t), the first half traces the
\* original on [0,t] and the second on [t,1]; at t = 1 the first half has the
\* original's control points and at t = 0 the second has.
C4_SplitDeCasteljau ==
    (call.fn = "splitCubicBezier" /\ call.done)
    => LET first == call.result[1]
           second == call.result[2]
           t == call.t
           mid == cubicBezierPoint(call.curve, t)
       IN  /\ first.start = call.curve.start
           /\ second.end = call.curve.end
           /\ first.end = mid
           /\ second.start = mid
           /\ \A u \in UnitParams :
                /\ cubicBezierPoint(first, u)
                     = cubicBezierPoint(call.curve, JSMul(t, u))
                /\ cubicBezierPoint(second, u)
                     = cubicBezierPoint(call.curve,
                                        JSAdd(t, JSMul(JSSub(N(1), t), u)))
           /\ t = N(1) => first = call.curve
           /\ t = N(0) => second = call.curve

\* C5: curve evaluation clamps t to [0,1]: the result is curve.start for any
\* t <= 0 and curve.end for any t >= 1.
C5_ClampedEvaluation ==
    (call.fn = "bezierPoint" /\ call.done)
    => /\ JSLe(call.t, N(0)) => call.result = call.curve.start
       /\ JSGe(call.t, N(1)) => call.result = call.curve.end

\* C6 as stated: on every LUT of createBezierLUT, the degenerate one included,
\* a target <= 0 gives 0 and a target >= totalLength gives 1.
C6_LengthToParameterEnds ==
    (call.fn = "lengthToParameter" /\ call.done)
    => /\ JSLe(call.target, N(0)) => call.result = N(0)
       /\ JSGe(call.target, call.lut.totalLength) => call.result = N(1)

\* C6 as amended: a target <= 0 gives 0; a target > 0 that is >= totalLength
\* gives 1; so lengthToParameter(lut, totalLength) is 1 when totalLength > 0
\* and 0 on the LUT of a degenerate curve (totalLength = 0).
C6_LengthToParameterEndsAmended ==
    (call.fn = "lengthToParameter" /\ call.done)
    => /\ JSLe(call.target, N(0)) => call.result = N(0)
       /\ (JSGt(call.target, N(0)) /\ JSGe(call.target, call.lut.totalLength))
            => call.result = N(1)
       /\ call.target = call.lut.totalLength
            => call.result = (IF call.lut.totalLength = N(0) THEN N(0) ELSE N(1))

C6_Witness ==
    /\ call.fn = "lengthToParameter" /\ call.done
    /\ call.lut.totalLength = N(0)
    /\ Len(call.lut.entries) = MinLUTSamples + 1
    /\ call.target = call.lut.totalLength
    /\ call.result = N(0)

\* The code's indices i (0-based) with entries[i].length >= targetLength.
AtLeast(lut, targetLength) ==
    {i \in 0..(Len(lut.entries) - 1) : JSGe(lut.entries[i + 1].length, targetLength)}

\* C26: for a LUT of createBezierLUT and 0 < targetLength < totalLength the
\* binary search ends at the first index i with entries[i].length >=
\* targetLength; i >= 1, so entries[i - 1] exists and the 'return 0' guard is
\* not taken; the result lies in [entries[i-1].t, entries[i].t], and is
\* entries[i-1].t when the two lengths are equal.
C26_BinarySearch ==
    (/\ call.fn = "lengthToParameter" /\ call.done
     /\ JSLt(N(0), call.target) /\ JSLt(call.target, call.lut.totalLength))
    => LET lut == call.lut
           i == SearchLUT(lut, call.target, 0, Len(lut.entries) - 1)
       IN  /\ i \in AtLeast(lut, call.target)
           /\ \A j \in AtLeast(lut, call.target) : i <= j
           /\ i >= 1
           /\ JSLe(lut.entries[i].t, call.result)
           /\ JSLe(call.result, lut.entries[i + 1].t)
           /\ lut.entries[i + 1].length = lut.entries[i].length
                => call.result = lut.entries[i].t

\* A target strictly inside (0, totalLength) that falls strictly between two
\* entries beyond the first pair: the result is strictly inside the bracket.
C26_Witness ==
    /\ call.fn = "lengthToParameter" /\ call.done
    /\ JSLt(N(0), call.target) /\ JSLt(call.target, call.lut.totalLength)
    /\ LET i == SearchLUT(call.lut, call.target, 0, Len(call.lut.entries) - 1)
       IN  /\ i > 1
           /\ JSLt(call.lut.entries[i].t, call.result)
           /\ JSLt(call.result, call.lut.entries[i + 1].t)

----------------------------------------------------------------------------
(* Claims about the renderers (checked under SpecRender) *)

\* A segment the walk draws, in part or in full.
Drawn(span) == span.class \in {"partial", "full"}

\* What a renderer shows of a segment: nothing, a part (with the local
\* progress) or all of it.
Portion(span) ==
    IF Drawn(span) THEN [class |-> span.class, t |-> span.t]
    ELSE [class |-> "none", t |-> Undef]

\* C1: in CanvasRenderer.renderPath, for a PathData of createPathData with
\* totalLength > 0, at progress 1 every segment after the first point is drawn
\* in full by drawSegment and none only partially.
C1_FullAtProgressOne ==
    (/\ frame.renderer = "canvas"
     /\ frame.progress = N(1)
     /\ JSGt(loadedPathData.totalLength, N(0)))
    => \A k \in DOMAIN frame.out :
          frame.out[k].class \in {"skipped", "first", "full"}

\* C2: partial-draw monotonicity of CanvasRenderer.renderPath: for a fixed
\* PathData and progress values p' < p in [0,1], a segment drawn (in part or in
\* full) at p' is drawn at p, and a segment drawn in full at p' is drawn in
\* full at p.
C2_PartialDrawMonotone ==
    frame.renderer = "canvas"
    => \A p \in Progresses :
          JSLt(frame.progress, p)
          => LET later == CanvasSpans(loadedPathData, p)
             IN  \A k \in DOMAIN frame.out :
                    /\ Drawn(frame.out[k]) => Drawn(later[k])
                    /\ frame.out[k].class = "full" => later[k].class = "full"

\* A frame below progress 1 with one segment drawn in full and the next in
\* part, which the frame at progress 1 draws in full.
C2_Witness ==
    /\ frame.renderer = "canvas"
    /\ JSLt(frame.progress, N(1))
    /\ \E k \in DOMAIN frame.out :
          /\ k > 1
          /\ frame.out[k - 1].class = "full"
          /\ frame.out[k].class = "partial"
          /\ Len(frame.out[k].ops) > 0
          /\ CanvasSpans(loadedPathData, N(1))[k].class = "full"

\* C3: for the same PathData and the same progress, TTYRenderer.drawPathToGrid
\* and CanvasRenderer.renderPath class every segment alike as not drawn,
\* partially drawn (with the same local progress) or fully drawn; and a path
\* the canvas draws at progress 1 is also drawn on the terminal grid.
C3_SameClassification ==
    frame.renderer = "tty"
    => LET canvas == CanvasSpans(loadedPathData, frame.progress)
       IN  /\ \A k \in DOMAIN canvas :
                 Portion(frame.out.segs[k]) = Portion(canvas[k])
           /\ (frame.progress = N(1) /\ \E k \in DOMAIN canvas : Drawn(canvas[k]))
                => frame.out.grid # {}

----------------------------------------------------------------------------
(* Claims about animate() and stop() (SpecAnimate, SpecAnimateOnce) *)

\* C13: once stop() has returned, no animate loop started before it renders
\* another frame or calls onUpdate / onComplete again, whatever animate and
\* stop calls follow and in whatever order the host fires pending callbacks.
C13_StopSuppressesFrames ==
    [][\A i \in 1..Len(loops) :
          loops[i].stopped => loops'[i].log = loops[i].log]_vars

\* The log of a loop that rendered n frames and has not ended / has ended.
RECURSIVE FramesLog(_)
FramesLog(n) == IF n = 0 THEN <<>> ELSE FramesLog(n - 1) \o <<"render", "onUpdate">>

\* C14: a single animate(duration > 0) on a renderer that is never stopped
\* completes when the host keeps firing the scheduled callback and the clock
\* advances: the promise resolves; the last frame before has raw progress 1
\* and progress timingFunction(1); onUpdate follows every render; onComplete
\* is called exactly once, just before the promise resolves.
C14_AnimateCompletes ==
    /\ [](\A i \in 1..Len(loops) :
            LET frames == Len(SelectSeq(loops[i].log, LAMBDA e : e = "render"))
            IN  IF loops[i].resolved
                THEN /\ loops[i].log = FramesLog(frames) \o <<"onComplete", "resolve">>
                     /\ loops[i].rawProgress = N(1)
                     /\ loops[i].progress = Timing(loops[i].timingFunction, N(1))
                ELSE loops[i].log = FramesLog(frames))
    /\ (Len(loops) = 1) ~> (Len(loops) = 1 /\ loops[1].resolved)

\* A terminal animation of duration 2 that has resolved after three frames.
C14_Witness ==
    /\ Len(loops) = 1 /\ loops[1].resolved
    /\ player.kind = "tty" /\ ~player.isPlaying /\ ~player.cursorHidden
    /\ loops[1].duration = 2
    /\ loops[1].log = FramesLog(3) \o <<"onComplete", "resolve">>
    /\ loops[1].rawProgress = N(1)

\* The animate() calls whose frame chain is live: a callback of the loop is
\* scheduled and the renderer is playing, so the callback renders when the
\* host fires it.
LiveChains ==
    IF player.isPlaying THEN {cb.loop : cb \in host.pending} ELSE {}

\* C27: a renderer runs at most one animation at a time: whatever animate()
\* and stop() calls are made, at most one frame chain is live at any moment.
C27_OneLiveChain ==
    Cardinality(LiveChains) <= 1

\* C28: every promise returned by animate() is eventually settled, also after
\* stop() or when another animate() call finishes first.  Only animateFrame
\* of the same call resolves the promise, and after the first frame it runs
\* only as a scheduled callback: a promise that is not resolved and has no
\* callback scheduled stays pending for ever.
C28_PromisesSettle ==
    \A i \in 1..Len(loops) :
        loops[i].resolved \/ \E cb \in host.pending : cb.loop = i

----------------------------------------------------------------------------
(* Claims about the path parser (checked under SpecParse) *)

\* "M x0 y0 L x1 y1 ... L xn yn Z" with numeric coordinates.
IsPolyline(pathString) ==
    /\ Len(pathString) >= 4 /\ Len(pathString) % 3 = 1
    /\ pathString[Len(pathString)] = "Z"
    /\ \A j \in 1..((Len(pathString) - 1) \div 3) :
          /\ pathString[3 * j - 2] = (IF j = 1 THEN "M" ELSE "L")
          /\ IsNum(parseFloat(pathString[3 * j - 1]))
          /\ IsNum(parseFloat(pathString[3 * j]))

\* The points p0..pn a polyline string names.
PolylinePoints(pathString) ==
    [j \in 1..((Len(pathString) - 1) \div 3) |->
        Pt(parseFloat(pathString[3 * j - 1]), parseFloat(pathString[3 * j]))]

\* The sum of the distances between consecutive points, from point k on.
RECURSIVE PolylineLength(_, _)
PolylineLength(points, k) ==
    IF k >= Len(points) THEN N(0)
    ELSE JSAdd(Hypot(JSSub(points[k + 1].x, points[k].x),
                     JSSub(points[k + 1].y, points[k].y)),
               PolylineLength(points, k + 1))

\* m is the least / the greatest of the values vs[1..].
IsMin(m, vs) == (\E j \in DOMAIN vs : vs[j] = m) /\ (\A j \in DOMAIN vs : JSLe(m, vs[j]))
IsMax(m, vs) == (\E j \in DOMAIN vs : vs[j] = m) /\ (\A j \in DOMAIN vs : JSGe(m, vs[j]))

\* C16: for "M p0 L p1 ... L pn Z" createPathData yields n+2 segments
\* M, L x n, Z carrying p0..pn, the min/max bounding box of the points, and
\* totalLength = the sum of the distances between consecutive points, with
\* nothing added for Z.
C16_Polyline ==
    call.fn = "createPathData" /\ call.done /\ IsPolyline(call.pathString) =>
        LET points == PolylinePoints(call.pathString)
            n == Len(points) - 1
            segments == call.pathData.segments
            xs == [j \in 1..(n + 1) |-> points[j].x]
            ys == [j \in 1..(n + 1) |-> points[j].y]
        IN  /\ Len(segments) = n + 2
            /\ call.segments = segments
            /\ \A j \in 1..(n + 1) :
                  segments[j] = [type |-> IF j = 1 THEN "M" ELSE "L",
                                 points |-> <<points[j]>>]
            /\ segments[n + 2] = [type |-> "Z", points |-> <<>>]
            /\ IsMin(call.pathData.bounds.minX, xs)
            /\ IsMin(call.pathData.bounds.minY, ys)
            /\ IsMax(call.pathData.bounds.maxX, xs)
            /\ IsMax(call.pathData.bounds.maxY, ys)
            /\ call.pathData.totalLength = PolylineLength(points, 1)

\* 'M 0 0 L 1 0 L 1 1 Z': 4 segments, box {0,0,1,1}, length 2.
C16_Witness ==
    /\ call.fn = "createPathData" /\ call.done
    /\ call.pathString = <<"M", "0", "0", "L", "1", "0", "L", "1", "1", "Z">>
    /\ Len(call.pathData.segments) = 4
    /\ call.pathData.totalLength = N(2)
    /\ call.pathData.bounds = [minX |-> N(0), minY |-> N(0), maxX |-> N(1), maxY |-> N(1)]

\* Letters that are no path command.
UnknownLetters == {"X"}

\* The path string without its unknown letters and their own arguments (the
\* lexemes from an unknown letter up to the next letter).
RECURSIVE RemoveUnknown(_, _, _)
RemoveUnknown(pathString, k, skipping) ==
    IF k > Len(pathString) THEN <<>>
    ELSE IF pathString[k] \in UnknownLetters
         THEN RemoveUnknown(pathString, k + 1, TRUE)
    ELSE IF pathString[k] \in CommandLetters
         THEN <<pathString[k]>> \o RemoveUnknown(pathString, k + 1, FALSE)
    ELSE (IF skipping THEN <<>> ELSE <<pathString[k]>>)
           \o RemoveUnknown(pathString, k + 1, skipping)

\* C17: a path string with a letter that is no command parses to the same
\* segments as the string with that letter and its arguments removed.
C17_UnknownSkipped ==
    call.fn = "createPathData" /\ call.done =>
        call.segments =
            parsePathData(tokenizePath(RemoveUnknown(call.pathString, 1, FALSE)))

\* A Point: two defined finite coordinates.
IsPoint(point) == IsNum(point.x) /\ IsNum(point.y)

\* C18: every point parsePathData emits (segment endpoints and each curve's
\* start, control and end points) has two defined finite coordinates, for
\* any recognized commands with any arguments: non-numeric ones, and lists
\* shorter than, or no multiple of, the command's arity.
C18_PointsFinite ==
    call.fn = "createPathData" /\ call.done =>
        \A k \in 1..Len(call.segments) :
            LET segment == call.segments[k]
            IN  /\ \A j \in 1..Len(segment.points) : IsPoint(segment.points[j])
                /\ HasCurve(segment) =>
                      \A field \in DOMAIN segment.curve : IsPoint(segment.curve[field])

\* The number of arguments one instance of a command takes.
Arity(upperType) ==
    CASE upperType \in {"M", "L", "T"} -> 2
      [] upperType \in {"H", "V"} -> 1
      [] upperType \in {"S", "Q"} -> 4
      [] upperType = "C" -> 6
      [] upperType = "A" -> 7
      [] OTHER -> 0

\* The command instances of one command token, from argument index i on:
\* one per pass of its for loop, and one for a Z.
RECURSIVE InstancesOf(_, _)
InstancesOf(command, i) ==
    LET upperType == UpperCase(command.type)
        last == IF i + Arity(upperType) <= Len(command.args)
                THEN i + Arity(upperType) ELSE Len(command.args)
    IN  IF upperType = "Z"
        THEN <<[type |-> "Z", relative |-> command.type = "z", args |-> <<>>]>>
        ELSE IF ~(i < Len(command.args)) THEN <<>>
        ELSE <<[type |-> upperType, relative |-> command.type # upperType,
                args |-> SubSeq(command.args, i + 1, last)]>>
               \o InstancesOf(command, i + Arity(upperType))

\* The command instances of a tokenized path, in order.
RECURSIVE Instances(_, _)
Instances(commands, k) ==
    IF k > Len(commands) THEN <<>>
    ELSE InstancesOf(commands[k], 0) \o Instances(commands, k + 1)

\* The point reached before segment k: the point of the nearest earlier
\* segment that has one, the origin if there is none.
RECURSIVE PointBefore(_, _)
PointBefore(segments, k) ==
    IF k <= 1 THEN Pt(N(0), N(0))
    ELSE IF Len(segments[k - 1].points) > 0 THEN segments[k - 1].points[1]
    ELSE PointBefore(segments, k - 1)

\* The control point a curve segment leaves behind: control2 of a cubic
\* segment, the control of a quadratic one.
LastControl(segment) ==
    IF "control2" \in DOMAIN segment.curve THEN segment.curve.control2
    ELSE segment.curve.control

\* C19: the implied control point of every S or T instance is
\* 2 * currentPoint - lastControlPoint when the command instance just before
\* was a curve (C, S, Q, T), and currentPoint when there is none before or it
\* was M, L, H, V, A or Z; also between the instances of one S / T token.
C19_MirroredControl ==
    call.fn = "createPathData" /\ call.done =>
        LET instances == Instances(tokenizePath(call.pathString), 1)
            segments == call.segments
        IN  /\ Len(segments) = Len(instances)
            /\ \A k \in 1..Len(instances) :
                  instances[k].type \in {"S", "T"} =>
                      LET currentPoint == PointBefore(segments, k)
                          implied == IF instances[k].type = "S"
                                     THEN segments[k].curve.control1
                                     ELSE segments[k].curve.control
                      IN  IF k > 1 /\ instances[k - 1].type \in {"C", "S", "Q", "T"}
                          THEN LET last == LastControl(segments[k - 1])
                               IN  implied =
                                     Pt(JSSub(JSMul(N(2), currentPoint.x), last.x),
                                        JSSub(JSMul(N(2), currentPoint.y), last.y))
                          ELSE implied = currentPoint

\* 'C 0 1 1 1 1 0 s 1 1 1 0 1 1 1 0': the first s mirrors (1,1) about (1,0),
\* the second mirrors the first one's control2 (2,1) about (2,0).
C19_Witness ==
    /\ call.fn = "createPathData" /\ call.done
    /\ call.pathString = <<"C", "0", "1", "1", "1", "1", "0",
                           "s", "1", "1", "1", "0", "1", "1", "1", "0">>
    /\ Len(call.segments) = 3
    /\ call.segments[2].curve.control1 = Pt(N(1), N(-1))
    /\ call.segments[3].curve.control1 = Pt(N(2), N(-1))

\* The end point of a relative command instance resolved against base.
RelativeEnd(instance, base) ==
    LET arity == Arity(instance.type)
    IN  CASE instance.type = "H" -> Pt(JSAdd(base.x, Arg(instance.args, 0)), base.y)
          [] instance.type = "V" -> Pt(base.x, JSAdd(base.y, Arg(instance.args, 0)))
          [] OTHER -> Pt(JSAdd(base.x, Arg(instance.args, arity - 2)),
                         JSAdd(base.y, Arg(instance.args, arity - 1)))

\* C20: Z emits one segment with no points and does not move currentPoint:
\* a relative command after a Z is resolved against the point reached just
\* before the Z, and a curve after a Z starts at that point.
C20_CloseKeepsCurrentPoint ==
    call.fn = "createPathData" /\ call.done =>
        LET instances == Instances(tokenizePath(call.pathString), 1)
            segments == call.segments
        IN  /\ Len(segments) = Len(instances)
            /\ \A k \in 1..Len(instances) :
                  instances[k].type = "Z" =>
                      /\ segments[k] = [type |-> "Z", points |-> <<>>]
                      /\ k < Len(instances) /\ instances[k + 1].type # "Z" =>
                            LET reached == PointBefore(segments, k)
                                next == instances[k + 1]
                            IN  /\ HasCurve(segments[k + 1]) =>
                                      segments[k + 1].curve.start = reached
                                /\ next.relative =>
                                      segments[k + 1].points[1] = RelativeEnd(next, reached)

\* 'M 0 1 1 1 Z l 1 0': the l after Z starts from (1,1), not from the
\* MoveTo point (0,1), and ends at (2,1).
C20_Witness ==
    /\ call.fn = "createPathData" /\ call.done
    /\ call.pathString = <<"M", "0", "1", "1", "1", "Z", "l", "1", "0">>
    /\ Len(call.segments) = 4
    /\ call.segments[3] = [type |-> "Z", points |-> <<>>]
    /\ call.segments[4].points = <<Pt(N(2), N(1))>>

\* C21: the normalized segments hold no 'Q' segment and only cubic curves;
\* they are as many as the parsed segments, in the same order; a rewritten
\* quadratic keeps its start and end, with control1 two thirds of the way
\* from start to the control and control2 two thirds of the way from end to
\* the control; every other segment is passed through unchanged.
C21_Normalized ==
    call.fn = "createPathData" /\ call.done =>
        LET parsed == call.segments
            normalized == call.pathData.segments
        IN  /\ Len(normalized) = Len(parsed)
            /\ \A k \in 1..Len(normalized) :
                  /\ normalized[k].type # "Q"
                  /\ HasCurve(normalized[k]) => IsCubic(normalized[k].curve)
                  /\ IF parsed[k].type = "Q"
                     THEN LET quad == parsed[k].curve
                              cubic == normalized[k].curve
                          IN  /\ normalized[k].type = "C"
                              /\ normalized[k].points = <<quad.end>>
                              /\ cubic.start = quad.start /\ cubic.end = quad.end
                              /\ JSMul(N(3), JSSub(cubic.control1.x, quad.start.x))
                                   = JSMul(N(2), JSSub(quad.control.x, quad.start.x))
                              /\ JSMul(N(3), JSSub(cubic.control1.y, quad.start.y))
                                   = JSMul(N(2), JSSub(quad.control.y, quad.start.y))
                              /\ JSMul(N(3), JSSub(cubic.control2.x, quad.end.x))
                                   = JSMul(N(2), JSSub(quad.control.x, quad.end.x))
                              /\ JSMul(N(3), JSSub(cubic.control2.y, quad.end.y))
                                   = JSMul(N(2), JSSub(quad.control.y, quad.end.y))
                     ELSE normalized[k] = parsed[k]

\* 'Q 1 1 2 0' from the origin becomes the cubic (0,0) (2/3,2/3) (4/3,2/3) (2,0).
C21_Witness ==
    /\ call.fn = "createPathData" /\ call.done
    /\ call.pathString = <<"Q", "1", "1", "2", "0">>
    /\ call.segments[1].type = "Q"
    /\ call.pathData.segments[1].type = "C"
    /\ call.pathData.segments[1].curve =
         [start |-> Pt(N(0), N(0)), control1 |-> Pt(Num(2, 3), Num(2, 3)),
          control2 |-> Pt(Num(4, 3), Num(2, 3)), end |-> Pt(N(2), N(0))]

\* The points that define the geometry of a segment: its end points and,
\* for a curve, the curve's start, control and end points.
GeometryPoints(segment) ==
    {segment.points[j] : j \in 1..Len(segment.points)} \cup
    (IF HasCurve(segment)
     THEN {segment.curve[field] : field \in DOMAIN segment.curve}
     ELSE {})

\* C22: for the segments parsePathData produces, calculatePathBounds gives
\* minX <= maxX and minY <= maxY and a box that contains every segment end
\* point, curve control point and curve start point; without any point the
\* box is (0,0,0,0) and createPathData gives point-less segments and
\* totalLength 0.
C22_Bounds ==
    call.fn = "createPathData" /\ call.done =>
        LET segments == call.segments
            bounds == calculatePathBounds(segments)
            geometry == UNION {GeometryPoints(segments[k]) : k \in 1..Len(segments)}
        IN  /\ JSLe(bounds.minX, bounds.maxX) /\ JSLe(bounds.minY, bounds.maxY)
            /\ \A point \in geometry :
                  /\ JSLe(bounds.minX, point.x) /\ JSLe(point.x, bounds.maxX)
                  /\ JSLe(bounds.minY, point.y) /\ JSLe(point.y, bounds.maxY)
            /\ geometry = {} =>
                  /\ bounds = [minX |-> N(0), minY |-> N(0), maxX |-> N(0), maxY |-> N(0)]
                  /\ call.pathData.bounds = bounds
                  /\ call.pathData.totalLength = N(0)
                  /\ \A k \in 1..Len(call.pathData.segments) :
                        call.pathData.segments[k].points = <<>>

----------------------------------------------------------------------------
(* Claims about applyEasing (checked under SpecBezier) *)

\* An easing argument that names no easing: a string other than the two
\* names, or an array whose length is not 4.
IsUnrecognized(easing) ==
    \/ easing.kind = "string" /\ easing.name \notin {"linear", "easeInOutCubic"}
    \/ easing.kind = "array" /\ Len(easing.items) # 4

\* C23: for t in [0,1], applyEasing with a string other than 'linear' and
\* 'easeInOutCubic', or with an array whose length is not 4, returns t, the
\* same as applyEasing(t, 'linear').
C23_EasingFallback ==
    call.fn = "applyEasing" /\ call.done /\ IsUnrecognized(call.easing) =>
        /\ call.result = call.t
        /\ call.result = applyEasing(call.t, EasingName("linear"))

\* applyEasing(1/4, 'bounce') = 1/4, where easeInOutCubic gives 1/16.
C23_Witness ==
    /\ call.fn = "applyEasing" /\ call.done
    /\ call.easing = EasingName("bounce") /\ call.t = Num(1, 4)
    /\ call.result = Num(1, 4)
    /\ easeInOutCubic(call.t) = Num(1, 16)

----------------------------------------------------------------------------
(* Claims about ttyTrace (checked under SpecTTYTrace) *)

\* C24: with loop = true another pass is started after a pass reaches
\* progress 1, so ttyTrace does not resolve after a single pass of
\* durationMs: when its promise has resolved, more than one pass was started.
C24_LoopRepeats ==
    call.fn = "ttyTrace" /\ call.loop /\ call.done => Len(loops) > 1

----------------------------------------------------------------------------
(* Claims about the command line (checked under SpecCLI) *)

\* The error outcome: a diagnostic on standard error, exit code 1, and no
\* output file.
ErrorOutcome ==
    /\ call.result.exitCode = 1
    /\ call.result.stderr # <<>>
    /\ call.result.written = {}

\* The outcome the given test of "is on the command line" implies:
\* the error outcome when neither option is given or the --svg file cannot
\* be read, and the svg source is the one used when --svg is given.
CLIOutcome(Given(_)) ==
    LET svg == call.options.svg
        path == call.options.path
    IN  /\ (~Given(svg) /\ ~Given(path)) => ErrorOutcome
        /\ (Given(svg) /\ svg[1] \notin ReadableFiles) => ErrorOutcome
        /\ (Given(svg) /\ Given(path) /\ svg[1] \in ReadableFiles) =>
              call.result.used = <<[kind |-> "svg", value |-> svg[1]]>>

OnCommandLine(option) == option # <<>>

----------------------------------------------------------------------------
(* Claims about Trace and useTrace (checked under SpecTrace) *)

\* C30: with autoPlay = true and loop = false the Trace component and the
\* useTrace hook play the animation exactly once after mount: animate is
\* called once, onStart and onEnd each fire at most once, and no animate call
\* follows the completion or a stop, across the re-renders caused by the
\* isPlaying / progress state updates.
C30_PlaysOnce ==
    (call.fn = "Trace" /\ call.autoPlay)
    => /\ call.mounted => Len(loops) = 1
       /\ call.onStart <= 1
       /\ call.onEnd <= 1

====
